---- MODULE Spec2Model ----
(***************************************************************************)
(* Multilevel-selection simulation (Learning-Dynamics).                    *)
(*                                                                         *)
(* The model follows Population.run_simulation of                          *)
(* src/src/models/population.py with src/src/models/individual.py: the     *)
(* population is a list of groups, a group a list of individuals, and one  *)
(* generation is play_game, calculate_fitness, reproduce, conflict_groups, *)
(* split_groups, calculate_fitness, reset_payoffs_and_fitness.             *)
(*                                                                         *)
(* Numbers.  Payoffs are sums of entries of the payoff matrices (integers  *)
(* for integer b and c).  The selection intensity is w = wNum / WDen and   *)
(* a fitness is stored multiplied by WDen, so 1 - w + w * payoff is the    *)
(* integer WDen - wNum + wNum * payoff.  A probability p of the            *)
(* configuration is stored as p * PDen.                                    *)
(*                                                                         *)
(* Randomness.  random.random() lies in [0, 1), so random.random() < p is  *)
(* always false for p <= 0, always true for p >= 1 and either otherwise;   *)
(* random.choice, random.randint and random.shuffle can return every       *)
(* element, index and order.                                               *)
(*                                                                         *)
(* Identity.  An individual is a Python object; `obj` is the object and    *)
(* `id` the value of its id field (a uuid4 string).  Both are opaque: the  *)
(* code only compares them for equality.                                   *)
(***************************************************************************)
EXTENDS Integers, Sequences, FiniteSets, TLC

VARIABLES
    call,       \* the call in progress and its arguments
    pay,        \* simulation3.py: the payoffs of the generation, pay[g][i]
    cfg,        \* the configuration of the replicate (settings/config and the constructor arguments)
    groups,     \* Population.groups: a sequence of groups, each a sequence of individuals
    pc,         \* the position of run_simulation
    cursor,     \* the position of the running for-loop (play_game, split_groups)
    generation, \* the number of generations started (saturates at GenCap)
    retries,    \* the number of times split_group has called itself (at most MaxSplitRetry)
    last,       \* what the last step did
    result,     \* the value run_simulation returned
    raised      \* the exception that left run_simulation

vars == <<call, pay, cfg, groups, pc, cursor, generation, retries, last, result, raised>>

(***************************************************************************)
(* Bounds of the model.                                                    *)
(***************************************************************************)
MaxGroups == 2          \* num_groups ranges over 2 .. MaxGroups
MaxGroupSize == 2       \* num_individuals ranges over 1 .. MaxGroupSize
MaxExtra == 2           \* the population is followed up to m * n + MaxExtra members
MaxSteps == 1           \* the step cap the termination claim speaks of
MaxSplitRetry == 1      \* the number of retries of split_group that a replicate is followed through

GenCap == MaxSteps + 2

(***************************************************************************)
(* Scales.                                                                 *)
(***************************************************************************)
PDen == 2
WDen == 10

(***************************************************************************)
(* Strategy and the payoff matrices (constants.py).                        *)
(***************************************************************************)
Strategy == {"ALTRUIST", "PAROCHIALIST", "EGOIST"}

StrategyValue(s) ==
    CASE s = "ALTRUIST" -> 0
      [] s = "PAROCHIALIST" -> 1
      [] s = "EGOIST" -> 2

A_IN_MATRIX(b, c) ==
    << <<b - c, b - c, 0 - c>>,
       <<b - c, b - c, 0 - c>>,
       <<b, b, 0>> >>

A_OUT_MATRIX(b, c) ==
    << <<b - c, 0 - c, 0 - c>>,
       <<b, 0, 0>>,
       <<b, 0, 0>> >>

\* payoff_matrix[self.strategy.value][other.strategy.value]
MatrixEntry(matrix, s, o) == matrix[StrategyValue(s) + 1][StrategyValue(o) + 1]

(***************************************************************************)
(* Sequence helpers.                                                       *)
(***************************************************************************)
RECURSIVE Flatten(_)
Flatten(gs) == IF gs = << >> THEN << >> ELSE Head(gs) \o Flatten(Tail(gs))

RECURSIVE SumSeq(_)
SumSeq(s) == IF s = << >> THEN 0 ELSE Head(s) + SumSeq(Tail(s))

Range(s) == {s[i] : i \in DOMAIN s}

RemoveAt(s, i) == SubSeq(s, 1, i - 1) \o SubSeq(s, i + 1, Len(s))

Min(S) == CHOOSE x \in S : \A y \in S : x <= y

TotalSize(gs) == Len(Flatten(gs))

(***************************************************************************)
(* Randomness.                                                             *)
(***************************************************************************)
\* The outcomes of `random.random() < p` for the probability p = num / den.
Flip(num, den) ==
    IF num <= 0 THEN {FALSE}
    ELSE IF num >= den THEN {TRUE}
    ELSE {TRUE, FALSE}

(***************************************************************************)
(* Individual (models/individual.py).                                      *)
(***************************************************************************)
None == 0

\* Individual(strategy, payoff, fitness) with id = None: a new object whose id
\* is a new uuid4, here the number of the object.
Individual(o, strategy, payoff, fitness) ==
    [obj |-> o, id |-> o, strategy |-> strategy, payoff |-> payoff, fitness |-> fitness]

\* Individual.__eq__: equality of the ids.
Eq(a, b) == a.id = b.id

\* `ind in group` for a list of individuals
In(ind, group) == \E i \in DOMAIN group : Eq(group[i], ind)

\* list == list for two lists of individuals
EqList(g1, g2) == Len(g1) = Len(g2) /\ \A i \in DOMAIN g1 : Eq(g1[i], g2[i])

\* A variant of calculate_fitness that forgets to weight the payoff by w.
calculate_fitness_unweighted(ind, wNum) ==
    [ind EXCEPT !.fitness = WDen - wNum + WDen * ind.payoff]

\* Individual.calculate_fitness: self.fitness = 1 - w + w * self.payoff
calculate_fitness(ind, wNum) ==
    [ind EXCEPT !.fitness = WDen - wNum + wNum * ind.payoff]

\* The objects and ids in use in a population.
Used(gs) ==
    {x.obj : x \in Range(Flatten(gs))} \cup {x.id : x \in Range(Flatten(gs))}

\* The least number not in `used`: a new object with a new uuid4.
Fresh(used) == Min((1 .. (Cardinality(used) + 1)) \ used)

RECURSIVE FreshSeq(_, _)
FreshSeq(used, k) ==
    IF k = 0 THEN << >>
    ELSE LET f == Fresh(used) IN <<f>> \o FreshSeq(used \cup {f}, k - 1)

\* A variant of __deepcopy__ that copies the strategy by a shifted enum value.
deepcopy_shifted_strategy(ind, o) ==
    Individual(o,
               CASE ind.strategy = "ALTRUIST" -> "PAROCHIALIST"
                 [] ind.strategy = "PAROCHIALIST" -> "EGOIST"
                 [] ind.strategy = "EGOIST" -> "ALTRUIST",
               ind.payoff, ind.fitness)

\* Individual.__deepcopy__: a new Individual with the strategy, payoff and
\* fitness of the original and no id argument, hence a new uuid4.
deepcopy(ind, o) == Individual(o, ind.strategy, ind.payoff, ind.fitness)

\* copy.deepcopy of a list of individuals, the copies being objects `fresh`.
deepcopy_list(group, fresh) == [i \in DOMAIN group |-> deepcopy(group[i], fresh[i])]

(***************************************************************************)
(* Configurations.                                                         *)
(***************************************************************************)
MutantStrategies == {"ALTRUIST", "PAROCHIALIST"}

Configs ==
    { [num_groups |-> m, num_individuals |-> n, mutant_strategy |-> s,
       alpha |-> 1, kappa |-> 1, q |-> 1, lambda_mig |-> 1,
       zInv |-> 2, wNum |-> 1, b |-> 2, c |-> 1] :
         m \in 2 .. MaxGroups, n \in 1 .. MaxGroupSize, s \in MutantStrategies }

(***************************************************************************)
(* Population: construction and analysis (models/population.py).           *)
(***************************************************************************)
\* A variant of _initialize_population that seeds a mutant in every group.
initialize_population_mutant_per_group(m, n, mutant_strategy) ==
    [g \in 1 .. m |->
        [i \in 1 .. n |->
            Individual((g - 1) * n + i,
                       IF i = 1 THEN mutant_strategy ELSE "EGOIST",
                       0, 0)]]

\* Population._initialize_population
initialize_population(m, n, mutant_strategy) ==
    [g \in 1 .. m |->
        [i \in 1 .. n |->
            Individual((g - 1) * n + i,
                       IF g = 1 /\ i = 1 THEN mutant_strategy ELSE "EGOIST",
                       0, 0)]]

\* Population.is_homogeneous raises IndexError when groups[0] is empty.
IsHomogeneousRaises(gs) == Len(gs) = 0 \/ Len(gs[1]) = 0

\* A variant of is_homogeneous that looks at the first group only.
is_homogeneous_first_group_only(gs) ==
    \A i \in DOMAIN gs[1] : gs[1][i].strategy = gs[1][1].strategy

\* Population.is_homogeneous
is_homogeneous(gs) ==
    LET first_strategy == gs[1][1].strategy
    IN  \A g \in DOMAIN gs : \A i \in DOMAIN gs[g] : gs[g][i].strategy = first_strategy

\* Population.get_homogeneous_strategy
get_homogeneous_strategy(gs) == gs[1][1].strategy

\* Population._get_group_index: the first slot that holds an individual equal
\* to `ind`, None when there is none.  Slots are numbered from 1.
get_group_index(gs, ind) ==
    IF \E g \in DOMAIN gs : In(ind, gs[g])
    THEN Min({g \in DOMAIN gs : In(ind, gs[g])})
    ELSE None

(***************************************************************************)
(* Interaction (models/population.py).                                     *)
(***************************************************************************)
\* The individual at position k of the flattened population, and the slot
\* and place that position k is.
SlotOf(gs, k) ==
    Min({g \in DOMAIN gs : k <= Len(Flatten(SubSeq(gs, 1, g)))})

\* Population._random_in_group_member: the individuals random.choice can
\* return, as positions of the flattened population; {None} for an empty list.
random_in_group_member(gs, individual, group_index) ==
    LET before == Len(Flatten(SubSeq(gs, 1, group_index - 1)))
        in_group == {before + i : i \in {j \in DOMAIN gs[group_index] :
                                            ~Eq(gs[group_index][j], individual)}}
    IN  IF in_group = {} THEN {None} ELSE in_group

\* Population._random_out_group_member
random_out_group_member(gs, exclude_group_index) ==
    LET out_group == {k \in 1 .. TotalSize(gs) : SlotOf(gs, k) # exclude_group_index}
    IN  IF out_group = {} THEN {None} ELSE out_group

\* Population.get_random_partner
get_random_partner(gs, individual, alpha) ==
    LET group_idx == get_group_index(gs, individual)
    IN  IF group_idx = None THEN {None}
        ELSE UNION { IF in THEN random_in_group_member(gs, individual, group_idx)
                     ELSE random_out_group_member(gs, group_idx) : in \in Flip(alpha, PDen) }

\* `obj.payoff += d`: every slot that holds the object sees the new payoff.
AddPayoff(gs, o, d) ==
    [g \in DOMAIN gs |->
        [i \in DOMAIN gs[g] |->
            IF gs[g][i].obj = o THEN [gs[g][i] EXCEPT !.payoff = @ + d] ELSE gs[g][i]]]

\* The body of play_game's loop for one individual and the partner drawn:
\* individual.calculate_payoff(partner, matrix), then
\* partner.calculate_payoff(individual, matrix).
Encounter(gs, individual, partner, b, c) ==
    LET matrix == IF get_group_index(gs, individual) = get_group_index(gs, partner)
                  THEN A_IN_MATRIX(b, c) ELSE A_OUT_MATRIX(b, c)
        gs1 == AddPayoff(gs, individual.obj,
                         MatrixEntry(matrix, individual.strategy, partner.strategy))
    IN  AddPayoff(gs1, partner.obj,
                  MatrixEntry(matrix, partner.strategy, individual.strategy))

\* The position after <<g, i>> in `for group in groups: for individual in group`,
\* <<0, 0>> at the end.
NextPos(gs, g, i) ==
    IF g \in DOMAIN gs /\ i < Len(gs[g]) THEN <<g, i + 1>>
    ELSE LET later == {h \in DOMAIN gs : h > g /\ Len(gs[h]) > 0}
         IN  IF later = {} THEN <<0, 0>> ELSE <<Min(later), 1>>

FirstPos(gs) == NextPos(gs, 0, 0)

(***************************************************************************)
(* The state machine of run_simulation.                                    *)
(***************************************************************************)
Init ==
    /\ call = <<"run_simulation">>
    /\ pay = << >>
    /\ cfg \in Configs
    /\ groups = initialize_population(cfg.num_groups, cfg.num_individuals, cfg.mutant_strategy)
    /\ pc = "is_homogeneous"
    /\ cursor = <<0, 0>>
    /\ generation = 0
    /\ retries = 0
    /\ last = "init"
    /\ result = None
    /\ raised = "none"

\* `while not self.is_homogeneous()` and, when the loop ends, the return of
\* get_homogeneous_strategy().
LoopTest ==
    /\ pc = "is_homogeneous"
    /\ \/ /\ IsHomogeneousRaises(groups)
          /\ pc' = "raised"
          /\ raised' = "IndexError"
          /\ UNCHANGED <<pay, cursor, generation, result>>
       \/ /\ ~IsHomogeneousRaises(groups)
          /\ is_homogeneous(groups)
          /\ pc' = "returned"
          /\ result' = get_homogeneous_strategy(groups)
          /\ UNCHANGED <<pay, cursor, generation, raised>>
       \/ /\ ~IsHomogeneousRaises(groups)
          /\ ~is_homogeneous(groups)
          /\ pc' = "play_game"
          /\ cursor' = FirstPos(groups)
          /\ generation' = IF generation < GenCap THEN generation + 1 ELSE generation
          /\ UNCHANGED <<pay, result, raised>>
    /\ last' = "is_homogeneous"
    /\ UNCHANGED <<pay, call, cfg, groups, retries>>

\* Population.play_game, one individual of its loop at a time.
PlayGame ==
    /\ pc = "play_game"
    /\ LET individual == groups[cursor[1]][cursor[2]]
           flat == Flatten(groups)
           next == NextPos(groups, cursor[1], cursor[2])
       IN  /\ \E partner \in get_random_partner(groups, individual, cfg.alpha) :
                  /\ groups' = IF partner = None THEN groups
                               ELSE Encounter(groups, individual, flat[partner], cfg.b, cfg.c)
                  /\ last' = IF partner = None THEN "no_partner" ELSE "encounter"
           /\ cursor' = next
           /\ pc' = IF next = <<0, 0>> THEN "calculate_fitness" ELSE "play_game"
    /\ UNCHANGED <<pay, call, cfg, generation, retries, result, raised>>

\* Population.calculate_fitness
population_calculate_fitness(gs, wNum) ==
    [g \in DOMAIN gs |-> [i \in DOMAIN gs[g] |-> calculate_fitness(gs[g][i], wNum)]]

\* A variant of run_simulation that calls conflict_groups right after the first
\* calculate_fitness, leaving reproduce out.
CalculateFitnessSkippingReproduce ==
    /\ pc \in {"calculate_fitness", "recalculate_fitness"}
    /\ groups' = population_calculate_fitness(groups, cfg.wNum)
    /\ pc' = IF pc = "calculate_fitness" THEN "conflict_groups"
             ELSE "reset_payoffs_and_fitness"
    /\ last' = "calculate_fitness"
    /\ UNCHANGED <<pay, call, cfg, cursor, generation, retries, result, raised>>

CalculateFitness ==
    /\ pc \in {"calculate_fitness", "recalculate_fitness"}
    /\ groups' = population_calculate_fitness(groups, cfg.wNum)
    /\ pc' = IF pc = "calculate_fitness" THEN "reproduce" ELSE "reset_payoffs_and_fitness"
    /\ last' = "calculate_fitness"
    /\ UNCHANGED <<pay, call, cfg, cursor, generation, retries, result, raised>>

(***************************************************************************)
(* Reproduction (models/population.py).                                    *)
(***************************************************************************)
\* The population is followed while it has at most this many members.
PopCap == cfg.num_groups * cfg.num_individuals + MaxExtra

Abs(x) == IF x < 0 THEN 0 - x ELSE x

\* bisect.bisect_right(a, x, lo, hi) as random.choices calls it; the list a and
\* the value x are given multiplied by the same positive number (`cum`, `y`).
RECURSIVE bisect_right(_, _, _, _)
bisect_right(cum, y, lo, hi) ==
    IF lo < hi
    THEN LET mid == (lo + hi) \div 2
         IN  IF y < cum[mid + 1] THEN bisect_right(cum, y, lo, mid)
             ELSE bisect_right(cum, y, mid + 1, hi)
    ELSE lo

\* random.choices(individuals, weights=probabilities, k=1)[0] with
\* probabilities[i] = fitness[i] / total_fitness: the positions it can return.
\* cum_weights are the running sums of the probabilities, their total is 1 and
\* the value looked up is random() * total in [0, 1).  Multiplied by
\* 2 * |total_fitness| the running sums are the integers `cum` and the value
\* looked up ranges over 0 .. 2 * |total_fitness| - 1 (the integers and the
\* points between them).
random_choices(fitness, total_fitness) ==
    LET n == Len(fitness)
        sign == IF total_fitness < 0 THEN 0 - 1 ELSE 1
        cum == [i \in 1 .. n |-> 2 * sign * SumSeq(SubSeq(fitness, 1, i))]
    IN  IF \A i \in 1 .. n : fitness[i] * sign > 0
        THEN 1 .. n
        ELSE {bisect_right(cum, y, 0, n - 1) + 1 : y \in 0 .. (2 * Abs(total_fitness) - 1)}

\* A variant of _select_individual_for_duplication whose zero-fitness branch
\* always takes the first member of the group drawn.
select_first_member_when_zero(gs, num_groups) ==
    LET individuals == Flatten(gs)
        fitness == [k \in DOMAIN individuals |-> individuals[k].fitness]
        total_fitness == SumSeq(fitness)
    IN  IF total_fitness = 0
        THEN {[exc |-> "none", selected |-> Len(Flatten(SubSeq(gs, 1, g - 1))) + 1, group |-> g] :
                 g \in {h \in 1 .. num_groups : Len(gs[h]) > 0}}
        ELSE {[exc |-> "none", selected |-> k, group |-> SlotOf(gs, k)] :
                 k \in random_choices(fitness, total_fitness)}

\* Population._select_individual_for_duplication: the outcomes, each the
\* exception raised or the position (in the flattened population) of the
\* individual copied and the group index returned.
select_individual_for_duplication(gs, num_groups) ==
    LET individuals == Flatten(gs)
        fitness == [k \in DOMAIN individuals |-> individuals[k].fitness]
        total_fitness == SumSeq(fitness)
        first(k) == Min({j \in DOMAIN individuals : Eq(individuals[j], individuals[k])})
    IN  IF total_fitness = 0
        THEN UNION { IF Len(gs[g]) = 0
                     THEN {[exc |-> "IndexError", selected |-> None, group |-> g]}
                     ELSE {[exc |-> "none",
                            selected |-> Len(Flatten(SubSeq(gs, 1, g - 1))) + i,
                            group |-> g] : i \in DOMAIN gs[g]}
                     : g \in 1 .. num_groups }
        ELSE {[exc |-> "none", selected |-> k, group |-> SlotOf(gs, first(k))] :
                 k \in random_choices(fitness, total_fitness)}

\* A variant of reproduce whose migration branch lacks the `else`: a migrating
\* clone is appended to the target group and to the parent's group.
reproduce_without_else(gs, num_groups, lambda_mig) ==
    UNION {
        IF sel.exc # "none"
        THEN {[exc |-> sel.exc, event |-> "select", groups |-> gs, parent |-> None, target |-> None]}
        ELSE LET new_individual == deepcopy(Flatten(gs)[sel.selected], Fresh(Used(gs)))
                 others == {i \in 1 .. num_groups : i # sel.group}
             IN  UNION {
                    IF migrate
                    THEN {[exc |-> "none", event |-> "migrate",
                           groups |-> [gs EXCEPT ![t] = Append(@, new_individual),
                                                 ![sel.group] = Append(@, new_individual)],
                           parent |-> sel.selected, target |-> t] :
                             t \in others}
                    ELSE {[exc |-> "none", event |-> "stay",
                           groups |-> [gs EXCEPT ![sel.group] = Append(@, new_individual)],
                           parent |-> sel.selected, target |-> sel.group]}
                    : migrate \in Flip(lambda_mig, PDen) }
        : sel \in select_individual_for_duplication(gs, num_groups) }

\* Population.reproduce: the outcomes, each the exception raised or the new
\* list of groups, with the position (in the flattened population) of the
\* individual copied and the group the copy was appended to.
reproduce(gs, num_groups, lambda_mig) ==
    UNION {
        IF sel.exc # "none"
        THEN {[exc |-> sel.exc, event |-> "select", groups |-> gs, parent |-> None, target |-> None]}
        ELSE LET new_individual == deepcopy(Flatten(gs)[sel.selected], Fresh(Used(gs)))
                 others == {i \in 1 .. num_groups : i # sel.group}
             IN  UNION {
                    IF migrate
                    THEN IF others = {}
                         THEN {[exc |-> "IndexError", event |-> "migrate", groups |-> gs,
                                parent |-> sel.selected, target |-> None]}
                         ELSE {[exc |-> "none", event |-> "migrate",
                                groups |-> [gs EXCEPT ![t] = Append(@, new_individual)],
                                parent |-> sel.selected, target |-> t] :
                                  t \in others}
                    ELSE {[exc |-> "none", event |-> "stay",
                           groups |-> [gs EXCEPT ![sel.group] = Append(@, new_individual)],
                           parent |-> sel.selected, target |-> sel.group]}
                    : migrate \in Flip(lambda_mig, PDen) }
        : sel \in select_individual_for_duplication(gs, num_groups) }

Reproduce ==
    /\ pc = "reproduce"
    /\ TotalSize(groups) < PopCap
    /\ \E out \in reproduce(groups, cfg.num_groups, cfg.lambda_mig) :
          /\ groups' = out.groups
          /\ raised' = out.exc
          /\ pc' = IF out.exc = "none" THEN "conflict_groups" ELSE "raised"
          /\ last' = out.event
    /\ UNCHANGED <<pay, call, cfg, cursor, generation, retries, result>>

(***************************************************************************)
(* Group conflict (models/population.py).  A group in a pair is a list     *)
(* object; it is named by the slot that held it when pair_groups ran, and  *)
(* its members are read from the population as it was then.                *)
(***************************************************************************)
\* The ascending sequence of the slots in S.
RECURSIVE SlotSeq(_)
SlotSeq(S) == IF S = {} THEN << >> ELSE <<Min(S)>> \o SlotSeq(S \ {Min(S)})

\* The orders random.shuffle can leave a list in.
Shuffles(seq) ==
    {[i \in DOMAIN seq |-> seq[p[i]]] :
        p \in {f \in [DOMAIN seq -> DOMAIN seq] : \A i, j \in DOMAIN seq : f[i] = f[j] => i = j}}

\* The sets of groups the loop `if random.random() < kappa` can flag.
Flagged(gs, kappa) ==
    {S \in SUBSET (DOMAIN gs) : \A g \in DOMAIN gs : (g \in S) \in Flip(kappa, PDen)}

\* list.remove(x): the list without its first element equal to the group in slot x.
RemoveFirstEqual(gs, involved, x) ==
    RemoveAt(involved, Min({j \in DOMAIN involved : EqList(gs[involved[j]], gs[x])}))

\* The repair of an odd number of groups in pair_groups: the outcomes, each the
\* exception raised or the list groups_involved.
RepairOdd(gs, involved) ==
    LET groups_not_involved ==
            {g \in DOMAIN gs : ~\E j \in DOMAIN involved : EqList(gs[g], gs[involved[j]])}
    IN  IF Len(involved) % 2 = 0
        THEN {[exc |-> "none", involved |-> involved]}
        ELSE IF Len(involved) = Len(gs)
        THEN {[exc |-> "none", involved |-> RemoveFirstEqual(gs, involved, x)] :
                 x \in Range(involved)}
        ELSE (IF groups_not_involved = {}
              THEN {[exc |-> "IndexError", involved |-> involved]}
              ELSE {[exc |-> "none", involved |-> Append(involved, x)] :
                       x \in groups_not_involved})
             \cup {[exc |-> "none", involved |-> RemoveAt(involved, j)] :
                      j \in DOMAIN involved}

\* Population.pair_groups: the outcomes, each the exception raised or the list
\* of pairs.
pair_groups(gs, kappa) ==
    UNION {
        UNION {
            IF rep.exc # "none" THEN {[exc |-> rep.exc, pairs |-> << >>]}
            ELSE {[exc |-> "none",
                   pairs |-> [i \in 1 .. (Len(sh) \div 2) |-> <<sh[2 * i - 1], sh[2 * i]>>]] :
                     sh \in Shuffles(rep.involved)}
            : rep \in RepairOdd(gs, SlotSeq(S)) }
        : S \in Flagged(gs, kappa) }

Pow(x, e) == IF e = 1 THEN x ELSE x * x

\* win_probability_1 of conflict_groups as the fraction num / den with den > 0,
\* or the exception its computation raises; 1 / z is the whole number zInv.
WinProbability(payoff_1, payoff_2, zInv) ==
    LET a == Pow(payoff_1, zInv)
        d == Pow(payoff_1, zInv) + Pow(payoff_2, zInv)
    IN  IF payoff_1 = payoff_2 THEN [exc |-> "none", num |-> 1, den |-> 2]
        ELSE IF d = 0 THEN [exc |-> "ZeroDivisionError", num |-> 0, den |-> 1]
        ELSE IF d < 0 THEN [exc |-> "none", num |-> 0 - a, den |-> 0 - d]
        ELSE [exc |-> "none", num |-> a, den |-> d]

GroupPayoff(group) == SumSeq([i \in DOMAIN group |-> group[i].payoff])

\* self.groups.index(loser): the first slot whose list equals the loser's, None
\* when there is none (ValueError).
IndexOf(gs, loser) ==
    IF \E g \in DOMAIN gs : EqList(gs[g], loser)
    THEN Min({g \in DOMAIN gs : EqList(gs[g], loser)})
    ELSE None

\* The loop of conflict_groups over the pairs: gs0 is the population when the
\* pairs were drawn, gs the population now, log the pairs resolved so far, each
\* with the slots of its winner and loser in gs0 and the slot that was
\* overwritten.
RECURSIVE ResolvePairs(_, _, _, _, _)
ResolvePairs(gs0, gs, pairs, zInv, log) ==
    IF pairs = << >> THEN {[exc |-> "none", groups |-> gs, log |-> log]}
    ELSE
      LET group_1 == gs0[Head(pairs)[1]]
          group_2 == gs0[Head(pairs)[2]]
          win == WinProbability(GroupPayoff(group_1), GroupPayoff(group_2), zInv)
      IN  IF win.exc # "none" THEN {[exc |-> win.exc, groups |-> gs, log |-> log]}
          ELSE UNION {
                 LET winner == IF first_wins THEN group_1 ELSE group_2
                     loser == IF first_wins THEN group_2 ELSE group_1
                     new_group == deepcopy_list(winner,
                                     FreshSeq(Used(gs) \cup Used(gs0), Len(winner)))
                     loser_index == IndexOf(gs, loser)
                     entry == [winner |-> Head(pairs)[IF first_wins THEN 1 ELSE 2],
                               loser |-> Head(pairs)[IF first_wins THEN 2 ELSE 1],
                               index |-> loser_index]
                 IN  IF loser_index = None
                     THEN {[exc |-> "ValueError", groups |-> gs, log |-> log]}
                     ELSE ResolvePairs(gs0, [gs EXCEPT ![loser_index] = new_group],
                                       Tail(pairs), zInv, Append(log, entry))
                 : first_wins \in Flip(win.num, win.den) }

\* Population.conflict_groups
conflict_groups(gs, kappa, zInv) ==
    UNION {
        IF pg.exc # "none" THEN {[exc |-> pg.exc, groups |-> gs, log |-> << >>]}
        ELSE ResolvePairs(gs, gs, pg.pairs, zInv, << >>)
        : pg \in pair_groups(gs, kappa) }

ConflictGroups ==
    /\ pc = "conflict_groups"
    /\ \E out \in conflict_groups(groups, cfg.kappa, cfg.zInv) :
          /\ TotalSize(out.groups) <= PopCap
          /\ groups' = out.groups
          /\ raised' = out.exc
          /\ pc' = IF out.exc = "none" THEN "split_groups" ELSE "raised"
          /\ cursor' = IF out.exc = "none" THEN <<1, 0>> ELSE cursor
          /\ last' = IF out.groups = groups THEN "no_conflict" ELSE "conflict"
    /\ UNCHANGED <<pay, call, cfg, generation, retries, result>>

(***************************************************************************)
(* Group splitting (models/population.py).                                 *)
(***************************************************************************)
\* The members of `group` at the places in S, in the order of the group.
RECURSIVE Pick(_, _)
Pick(group, S) ==
    IF group = << >> THEN << >>
    ELSE Pick(SubSeq(group, 1, Len(group) - 1), S)
         \o (IF Len(group) \in S THEN <<group[Len(group)]>> ELSE << >>)

\* A variant of the end of split_group that appends new_group_2 to the list of
\* groups instead of overwriting a slot.
PlaceHalvesAppending(gs, index, new_group_1, new_group_2, n) ==
    {[exc |-> "none", retries |-> n, event |-> "split_group",
      groups |-> Append([gs EXCEPT ![index] = new_group_1], new_group_2)]}

\* The last two assignments of split_group and the random.choice between them:
\* new_group_1 takes the slot, new_group_2 overwrites another slot.  `n` is the
\* number of nested calls made so far.
PlaceHalves(gs, index, new_group_1, new_group_2, n) ==
    LET others == {i \in DOMAIN gs : i # index}
    IN  IF others = {}
        THEN {[exc |-> "IndexError", retries |-> n, event |-> "split_group",
               groups |-> [gs EXCEPT ![index] = new_group_1]]}
        ELSE {[exc |-> "none", retries |-> n, event |-> "split_group",
               groups |-> [gs EXCEPT ![index] = new_group_1, ![other] = new_group_2]] :
                 other \in others}

\* Population.split_group(index): the outcomes, each the exception raised or
\* the new list of groups.  When one side of the random assignment is empty
\* the method calls itself and then goes on with its own two lists; `left`
\* is the number of nested calls still followed.
RECURSIVE split_group(_, _, _)
split_group(gs, index, left) ==
    LET group == gs[index]
    IN  UNION {
          LET new_group_1 == Pick(group, S)
              new_group_2 == Pick(group, DOMAIN group \ S)
          IN  IF new_group_1 = << >> \/ new_group_2 = << >>
              THEN IF left = 0 THEN {}
                   ELSE UNION {
                          IF inner.exc # "none" THEN {[inner EXCEPT !.retries = @ + 1]}
                          ELSE PlaceHalves(inner.groups, index, new_group_1, new_group_2,
                                           inner.retries + 1)
                          : inner \in split_group(gs, index, left - 1) }
              ELSE PlaceHalves(gs, index, new_group_1, new_group_2, 0)
          : S \in SUBSET (DOMAIN group) }

\* A variant of the body of split_groups' loop that also treats a group of
\* exactly num_individuals members as oversized.
SplitOrShrinkAtTargetSize(gs, i, num_individuals, q, left) ==
    IF Len(gs[i]) >= num_individuals
    THEN UNION {
           IF split THEN split_group(gs, i, left)
           ELSE {[exc |-> "none", retries |-> 0, event |-> "shrink",
                  groups |-> [gs EXCEPT ![i] = RemoveAt(@, j)]] : j \in DOMAIN gs[i]}
           : split \in Flip(q, PDen) }
    ELSE {[exc |-> "none", retries |-> 0, event |-> "keep", groups |-> gs]}

\* The body of split_groups' loop for slot i.
SplitOrShrink(gs, i, num_individuals, q, left) ==
    IF Len(gs[i]) > num_individuals
    THEN UNION {
           IF split THEN split_group(gs, i, left)
           ELSE {[exc |-> "none", retries |-> 0, event |-> "shrink",
                  groups |-> [gs EXCEPT ![i] = RemoveAt(@, j)]] : j \in DOMAIN gs[i]}
           : split \in Flip(q, PDen) }
    ELSE {[exc |-> "none", retries |-> 0, event |-> "keep", groups |-> gs]}

\* Population.split_groups, one slot of `for i, group in enumerate(self.groups)`
\* at a time.
SplitGroups ==
    /\ pc = "split_groups"
    /\ \E out \in SplitOrShrink(groups, cursor[1], cfg.num_individuals, cfg.q,
                                MaxSplitRetry - retries) :
          /\ groups' = out.groups
          /\ retries' = retries + out.retries
          /\ raised' = out.exc
          /\ pc' = IF out.exc # "none" THEN "raised"
                   ELSE IF cursor[1] < Len(groups) THEN "split_groups"
                   ELSE "recalculate_fitness"
          /\ cursor' = <<cursor[1] + 1, 0>>
          /\ last' = out.event
    /\ UNCHANGED <<pay, call, cfg, generation, result>>

(***************************************************************************)
(* Reset and the end of a generation.                                      *)
(***************************************************************************)
\* A variant of reset_payoffs_and_fitness that resets the payoff only.
reset_payoffs_only(gs) ==
    [g \in DOMAIN gs |-> [i \in DOMAIN gs[g] |-> [gs[g][i] EXCEPT !.payoff = 0]]]

\* Population.reset_payoffs_and_fitness
reset_payoffs_and_fitness(gs) ==
    [g \in DOMAIN gs |->
        [i \in DOMAIN gs[g] |-> [gs[g][i] EXCEPT !.payoff = 0, !.fitness = 0]]]

\* Objects and uuid4 ids are opaque, so a population is the same population
\* under any renaming of them: each object (each id) is renamed to the first
\* position of the flattened population that holds it.
Canonical(gs) ==
    LET flat == Flatten(gs)
        objname(o) == Min({k \in DOMAIN flat : flat[k].obj = o})
        idname(d) == Min({k \in DOMAIN flat : flat[k].id = d})
    IN  [g \in DOMAIN gs |->
            [i \in DOMAIN gs[g] |->
                [gs[g][i] EXCEPT !.obj = objname(@), !.id = idname(@)]]]

ResetPayoffsAndFitness ==
    /\ pc = "reset_payoffs_and_fitness"
    /\ groups' = Canonical(reset_payoffs_and_fitness(groups))
    /\ last' = "reset_payoffs_and_fitness"
    /\ pc' = "is_homogeneous"
    /\ UNCHANGED <<pay, call, cfg, cursor, generation, retries, result, raised>>

Next ==
    \/ LoopTest
    \/ PlayGame
    \/ CalculateFitness
    \/ Reproduce
    \/ ConflictGroups
    \/ SplitGroups
    \/ ResetPayoffsAndFitness

Spec == Init /\ [][Next]_vars

(***************************************************************************)
(* Properties.                                                             *)
(***************************************************************************)
Members == Range(Flatten(groups))

StrategiesPresent == {x.strategy : x \in Members}

\* C1: run_simulation ends within max_steps + 1 generations: no more than
\* MaxSteps + 1 generations are ever started.
C1_EndsWithinMaxSteps == generation <= MaxSteps + 1

\* C2: whenever run_simulation has returned, every individual of every group
\* holds the strategy that was returned.
C2_ReturnedStrategyIsEveryones ==
    pc = "returned" =>
        /\ Members # {}
        /\ \A g \in DOMAIN groups : \A i \in DOMAIN groups[g] :
              groups[g][i].strategy = result

C2_ReturnedAfterGenerations ==
    pc = "returned" /\ generation >= 2 /\ Len(groups[2]) >= 1

\* C3: under a valid configuration run_simulation never raises.
C3_NeverRaises == raised = "none"

C5_SplitAddsAGroup ==
    [][(pc = "split_groups" /\ last' = "split_group") =>
          /\ Len(groups') = Len(groups) + 1
          /\ Len(groups'[cursor[1]]) = Len(groups[cursor[1]]) \div 2]_vars

\* C6: right after construction there are num_groups groups of num_individuals
\* individuals, exactly one individual is not an EGOIST, and it holds
\* mutant_strategy.
C6_OneMutantAtConstruction ==
    last = "init" =>
        /\ Len(groups) = cfg.num_groups
        /\ \A g \in DOMAIN groups : Len(groups[g]) = cfg.num_individuals
        /\ LET flat == Flatten(groups)
               mutants == {k \in DOMAIN flat : flat[k].strategy # "EGOIST"}
           IN  /\ Cardinality(mutants) = 1
               /\ \A k \in mutants : flat[k].strategy = cfg.mutant_strategy

C6_Constructed ==
    /\ last = "init"
    /\ cfg.num_groups = 2
    /\ cfg.num_individuals = 2
    /\ cfg.mutant_strategy = "PAROCHIALIST"

\* C7: the strategies present are always among EGOIST and mutant_strategy, no
\* step brings in a strategy that was absent before it, and the result is
\* EGOIST or mutant_strategy.
C7_NoNewStrategy ==
    /\ [](/\ StrategiesPresent \subseteq {"EGOIST", cfg.mutant_strategy}
          /\ pc = "returned" => result \in {"EGOIST", cfg.mutant_strategy})
    /\ [][StrategiesPresent' \subseteq StrategiesPresent]_vars

C7_MutantCopiedByConflict ==
    /\ last = "conflict"
    /\ Cardinality({x \in Members : x.strategy = cfg.mutant_strategy}) >= 3

\* C8: right after calculate_fitness every individual has
\* fitness = 1 - w + w * payoff, and calculate_fitness changes nothing but the
\* fitness: no payoff, no strategy, no membership.
C8_FitnessFormula ==
    /\ [](last = "calculate_fitness" =>
             \A x \in Members : x.fitness = WDen - cfg.wNum + cfg.wNum * x.payoff)
    /\ [][last' = "calculate_fitness" =>
             /\ DOMAIN groups' = DOMAIN groups
             /\ \A g \in DOMAIN groups :
                   /\ DOMAIN groups'[g] = DOMAIN groups[g]
                   /\ \A i \in DOMAIN groups[g] :
                         [groups'[g][i] EXCEPT !.fitness = 0]
                            = [groups[g][i] EXCEPT !.fitness = 0]]_vars

C8_FitnessOfNegativePayoff ==
    /\ last = "calculate_fitness"
    /\ \E x \in Members : x.payoff < 0 /\ x.fitness = WDen - cfg.wNum + cfg.wNum * x.payoff
    /\ \E x \in Members : x.payoff > 0

\* C9: a call of reproduce that returns adds exactly one individual: one group
\* gains one member at its end, every other group and every individual that
\* was there is unchanged.
C9_ReproduceAddsOne ==
    [][(pc = "reproduce" /\ pc' = "conflict_groups") =>
          /\ Len(groups') = Len(groups)
          /\ TotalSize(groups') = TotalSize(groups) + 1
          /\ \E g \in DOMAIN groups :
                /\ Len(groups'[g]) = Len(groups[g]) + 1
                /\ SubSeq(groups'[g], 1, Len(groups[g])) = groups[g]
                /\ \A h \in DOMAIN groups : h # g => groups'[h] = groups[h]]_vars

C9_Migrated ==
    pc = "conflict_groups" /\ last = "migrate" /\ generation >= 2

\* C10: in every state a replicate reaches, is_homogeneous returns without
\* raising, and returns True exactly when all individuals share one strategy.
C10_IsHomogeneousDecides ==
    /\ ~IsHomogeneousRaises(groups)
    /\ is_homogeneous(groups) <=> (Cardinality(StrategiesPresent) <= 1)

\* C18: the phases of a generation run in the order play_game,
\* calculate_fitness, reproduce, conflict_groups, split_groups,
\* calculate_fitness, reset_payoffs_and_fitness, homogeneity check: each
\* phase starts right after the one before it, none is skipped, and when
\* conflict_groups starts the payoffs of the generation have not been reset
\* (every fitness is still the one computed from the payoff held).
C18_PhaseOrder ==
    /\ pc = "is_homogeneous" => last \in {"init", "reset_payoffs_and_fitness"}
    /\ pc = "play_game" => last \in {"is_homogeneous", "encounter", "no_partner"}
    /\ pc = "calculate_fitness" => last \in {"encounter", "no_partner"}
    /\ pc = "reproduce" => last = "calculate_fitness"
    /\ pc = "conflict_groups" =>
          /\ last \in {"migrate", "stay"}
          /\ \A x \in Members : x.fitness = WDen - cfg.wNum + cfg.wNum * x.payoff
    /\ pc = "split_groups" =>
          last \in {"conflict", "no_conflict", "split_group", "shrink", "keep"}
    /\ (pc = "split_groups" /\ cursor[1] = 1) => last \in {"conflict", "no_conflict"}
    /\ pc = "recalculate_fitness" => last \in {"split_group", "shrink", "keep"}
    /\ pc = "reset_payoffs_and_fitness" => last = "calculate_fitness"

C18_ConflictSeesPayoffs ==
    /\ pc = "conflict_groups"
    /\ generation >= 2
    /\ \E x \in Members : x.payoff # 0

\* C19: once reset_payoffs_and_fitness has run, and so whenever a generation
\* after the first starts, every individual of every group has payoff 0 and
\* fitness 0, the clones made in the generation included.
C19_ResetClearsEveryone ==
    (last = "reset_payoffs_and_fitness" \/ (pc = "is_homogeneous" /\ generation >= 1)) =>
        \A x \in Members : x.payoff = 0 /\ x.fitness = 0

C19_ResetWithClones ==
    /\ last = "reset_payoffs_and_fitness"
    /\ generation >= 1
    /\ TotalSize(groups) > cfg.num_groups * cfg.num_individuals

(***************************************************************************)
(* Construction and strategy assignment (models/individual.py,             *)
(* models/population.py, individual.py).                                   *)
(***************************************************************************)
\* A value that is no member of Strategy (test_invalid_strategy passes a str).
InvalidStrategy == "INVALID"

\* The strategy setter: ValueError for a value that is no Strategy, else the
\* assignment.
set_strategy(ind, strategy) ==
    IF strategy \notin Strategy
    THEN [exc |-> "ValueError", ind |-> ind]
    ELSE [exc |-> "none", ind |-> [ind EXCEPT !.strategy = strategy]]

\* Individual.__init__ of individual.py: self.strategy = strategy goes through
\* the setter, which after its isinstance test reads self.id for its log line;
\* __init__ assigns self.id last, so the property finds no _id.
RootIndividualInit(o, strategy) ==
    IF set_strategy(Individual(o, "EGOIST", 0, 0), strategy).exc # "none"
    THEN [exc |-> "ValueError", ind |-> None]
    ELSE [exc |-> "AttributeError", ind |-> None]

\* Population.__init__ of models/population.py with _initialize_population:
\* the exception raised and where, or the groups built.  The list of lists is
\* built for any num_groups and num_individuals (range of a number <= 0 is
\* empty); groups[0][0] is then indexed and its strategy set.
Population_init(m, n, mutant_strategy) ==
    LET built == [g \in 1 .. m |-> [i \in 1 .. n |-> Individual((g - 1) * n + i, "EGOIST", 0, 0)]]
    IN  IF built = << >> \/ built[1] = << >>
        THEN [exc |-> "IndexError", at |-> "groups[0][0]", groups |-> << >>]
        ELSE IF set_strategy(built[1][1], mutant_strategy).exc # "none"
        THEN [exc |-> "ValueError", at |-> "strategy.setter", groups |-> << >>]
        ELSE [exc |-> "none", at |-> "return",
              groups |-> initialize_population(m, n, mutant_strategy)]

\* The constructor arguments tried: well-formed and malformed ones.
ConstructConfigs ==
    { [num_groups |-> m, num_individuals |-> n, mutant_strategy |-> s,
       alpha |-> 1, kappa |-> 1, q |-> 1, lambda_mig |-> 1,
       zInv |-> 2, wNum |-> 1, b |-> 2, c |-> 1] :
         m \in (0 - 1) .. MaxGroups, n \in (0 - 1) .. MaxGroupSize, s \in MutantStrategies }

InitConstruct ==
    /\ call = <<"new">>
    /\ pay = << >>
    /\ cfg \in ConstructConfigs
    /\ groups = << >>
    /\ pc = "new"
    /\ cursor = <<0, 0>>
    /\ generation = 0
    /\ retries = 0
    /\ last = "init"
    /\ result = None
    /\ raised = "none"

\* Population(num_groups, num_individuals, mutant_strategy)
NewPopulation ==
    /\ pc = "new"
    /\ LET out == Population_init(cfg.num_groups, cfg.num_individuals, cfg.mutant_strategy)
       IN  /\ groups' = out.groups
           /\ raised' = out.exc
           /\ last' = out.at
           /\ pc' = IF out.exc = "none" THEN "constructed" ELSE "raised"
    /\ call' = <<"Population", cfg.num_groups, cfg.num_individuals>>
    /\ UNCHANGED <<pay, cfg, cursor, generation, retries, result>>

\* Individual(strategy=...) of models/individual.py: _strategy is assigned
\* directly, whatever the value.
NewIndividual ==
    /\ pc = "new"
    /\ \E strategy \in Strategy \cup {InvalidStrategy} :
          /\ result' = Individual(1, strategy, 0, 0)
          /\ call' = <<"Individual", strategy>>
    /\ raised' = "none"
    /\ last' = "return"
    /\ pc' = "individual"
    /\ UNCHANGED <<pay, cfg, groups, cursor, generation, retries>>

\* Individual(strategy=...) of individual.py
NewRootIndividual ==
    /\ pc = "new"
    /\ \E strategy \in Strategy \cup {InvalidStrategy} :
          LET out == RootIndividualInit(1, strategy)
          IN  /\ result' = out.ind
              /\ raised' = out.exc
              /\ call' = <<"individual.Individual", strategy>>
    /\ last' = "strategy.setter"
    /\ pc' = "raised"
    /\ UNCHANGED <<pay, cfg, groups, cursor, generation, retries>>

\* groups[g][i].strategy = strategy on a population that was constructed
SetStrategy ==
    /\ pc = "constructed"
    /\ \E g \in DOMAIN groups : \E i \in DOMAIN groups[g] :
       \E strategy \in Strategy \cup {InvalidStrategy} :
          LET out == set_strategy(groups[g][i], strategy)
          IN  /\ groups' = [groups EXCEPT ![g][i] = out.ind]
              /\ raised' = out.exc
              /\ call' = <<"strategy.setter", g, i, strategy, groups[g][i].strategy>>
    /\ last' = "strategy.setter"
    /\ UNCHANGED <<pay, cfg, pc, cursor, generation, retries, result>>

NextConstruct ==
    \/ NewPopulation
    \/ NewIndividual
    \/ NewRootIndividual
    \/ SetStrategy

SpecConstruct == InitConstruct /\ [][NextConstruct]_vars

\* C12: a strategy that is no member of Strategy is rejected with ValueError
\* when an Individual is constructed with it and when it is assigned to
\* individual.strategy, and the strategy held before the assignment stays.
C12_InvalidStrategyRejected ==
    /\ (call[1] = "Individual" /\ call[2] \notin Strategy) => raised = "ValueError"
    /\ (call[1] = "strategy.setter" /\ call[4] \notin Strategy) =>
          /\ raised = "ValueError"
          /\ groups[call[2]][call[3]].strategy = call[5]

\* C13: Population(num_groups, num_individuals, ...) with num_groups <= 0 or
\* num_individuals <= 0 is rejected by a validation of the arguments, before
\* any group is indexed.
C13_MalformedConfigRejected ==
    (call[1] = "Population" /\ (call[2] <= 0 \/ call[3] <= 0)) =>
        /\ raised = "ValueError"
        /\ last = "validation"

(***************************************************************************)
(* Group splitting of classes/population.py.                               *)
(***************************************************************************)
\* Equality of two individuals of classes/individual.py: each instance has an
\* identity of its own.
classes_Eq(a, b) == a.id = b.id

\* list.index(x): the first place that holds an element equal to x.
classes_index(lst, x) == Min({j \in DOMAIN lst : classes_Eq(lst[j], x)})

\* A variant of force_splitting that appends the forced individual to the
\* empty list and leaves it in the other list too.
force_splitting_without_pop(group_1, group_2) ==
    IF Len(group_1) = 0
    THEN {[exc |-> "none", group_1 |-> Append(group_1, group_2[k]), group_2 |-> group_2] :
             k \in DOMAIN group_2}
    ELSE IF Len(group_2) = 0
    THEN {[exc |-> "none", group_1 |-> group_1, group_2 |-> Append(group_2, group_1[k])] :
             k \in DOMAIN group_1}
    ELSE {[exc |-> "none", group_1 |-> group_1, group_2 |-> group_2]}

\* Population.force_splitting(group_1, group_2): the outcomes, each the
\* exception raised or the two lists as it leaves them.
force_splitting(group_1, group_2) ==
    IF Len(group_1) = 0
    THEN IF Len(group_2) = 0
         THEN {[exc |-> "IndexError", group_1 |-> group_1, group_2 |-> group_2]}
         ELSE {[exc |-> "none",
                group_1 |-> Append(group_1, group_2[k]),
                group_2 |-> RemoveAt(group_2, classes_index(group_2, group_2[k]))] :
                  k \in DOMAIN group_2}
    ELSE IF Len(group_2) = 0
    THEN {[exc |-> "none",
           group_1 |-> RemoveAt(group_1, classes_index(group_1, group_1[k])),
           group_2 |-> Append(group_2, group_1[k])] :
             k \in DOMAIN group_1}
    ELSE {[exc |-> "none", group_1 |-> group_1, group_2 |-> group_2]}

\* Population.split_group(index) of classes/population.py: the outcomes, each
\* the exception raised or the new list of groups with the slot that took
\* new_group_2.
classes_split_group(gs, index) ==
    LET group == gs[index]
        others == {i \in DOMAIN gs : i # index}
    IN  UNION {
          LET new_group_1 == Pick(group, S)
              new_group_2 == Pick(group, DOMAIN group \ S)
              forced == new_group_1 = << >> \/ new_group_2 = << >>
              halves == IF forced THEN force_splitting(new_group_1, new_group_2)
                        ELSE {[exc |-> "none", group_1 |-> new_group_1, group_2 |-> new_group_2]}
          IN  UNION {
                IF h.exc # "none"
                THEN {[exc |-> h.exc, event |-> "force_splitting", other |-> 0, groups |-> gs]}
                ELSE IF others = {}
                THEN {[exc |-> "IndexError", event |-> "random.choice", other |-> 0,
                       groups |-> [gs EXCEPT ![index] = h.group_1]]}
                ELSE {[exc |-> "none",
                       event |-> IF forced THEN "force_splitting" ELSE "split_group",
                       other |-> other_index,
                       groups |-> [gs EXCEPT ![index] = h.group_1, ![other_index] = h.group_2]] :
                         other_index \in others}
                : h \in halves }
          : S \in SUBSET (DOMAIN group) }

\* The populations a split starts from: num_groups groups of 1 to
\* num_individuals + 1 distinct individuals, each an EGOIST or a mutant.
SplitPopulations(c) ==
    UNION {
      { Canonical([g \in 1 .. c.num_groups |->
                     [i \in 1 .. size[g] |-> Individual(10 * g + i, strat[g][i], 0, 0)]]) :
          strat \in [1 .. c.num_groups ->
                       [1 .. (c.num_individuals + 1) -> {"EGOIST", c.mutant_strategy}]] }
      : size \in [1 .. c.num_groups -> 1 .. (c.num_individuals + 1)] }

InitClassesSplit ==
    /\ call = <<"new">>
    /\ pay = << >>
    /\ cfg \in Configs
    /\ groups \in SplitPopulations(cfg)
    /\ pc = "split_groups"
    /\ cursor = <<0, 0>>
    /\ generation = 0
    /\ retries = 0
    /\ last = "init"
    /\ result = None
    /\ raised = "none"

\* self.split_group(i) as split_groups calls it: on a group larger than
\* num_individuals.
ClassesSplitGroup ==
    /\ pc = "split_groups"
    /\ \E index \in DOMAIN groups :
          /\ Len(groups[index]) > cfg.num_individuals
          /\ \E out \in classes_split_group(groups, index) :
                /\ groups' = out.groups
                /\ raised' = out.exc
                /\ last' = out.event
                /\ cursor' = <<index, out.other>>
                /\ call' = <<"split_group", index, groups[index]>>
    /\ pc' = "split_done"
    /\ UNCHANGED <<pay, cfg, generation, retries, result>>

NextClassesSplit == ClassesSplitGroup

SpecClassesSplit == InitClassesSplit /\ [][NextClassesSplit]_vars

Objects(group) == {group[i].obj : i \in DOMAIN group}

\* C11: split_group of classes/population.py on a group of at least 2 members
\* leaves two non-empty, disjoint groups that together hold exactly the
\* members of the group that was split, whatever the coin flips.
C11_SplitPartitions ==
    (pc = "split_done" /\ Len(call[3]) >= 2) =>
        /\ raised = "none"
        /\ LET new_group_1 == groups[cursor[1]]
               new_group_2 == groups[cursor[2]]
           IN  /\ new_group_1 # << >>
               /\ new_group_2 # << >>
               /\ Objects(new_group_1) \cap Objects(new_group_2) = {}
               /\ Objects(new_group_1) \cup Objects(new_group_2) = Objects(call[3])
               /\ Len(new_group_1) + Len(new_group_2) = Len(call[3])

C11_ForcedSplit ==
    /\ pc = "split_done"
    /\ last = "force_splitting"
    /\ Len(call[3]) = 3
    /\ Len(groups[cursor[1]]) = 1

(***************************************************************************)
(* The methods of population.py with individual.py and constants.py,       *)
(* called on a population laid out as _initialize_population lays it out.  *)
(* Individual.__init__ of individual.py itself raises for every valid      *)
(* strategy (RootIndividualInit); the individuals here are the objects it  *)
(* would leave had it assigned the id first.                               *)
(***************************************************************************)
\* Strategy.value in constants.py: `ALTRUIST = 0,` and `PAROCHIALIST = 1,`
\* end in a comma, so their values are the tuples (0,) and (1,); EGOIST is 2.
RootStrategyValue(s) ==
    CASE s = "ALTRUIST" -> [tuple |-> TRUE, n |-> 0]
      [] s = "PAROCHIALIST" -> [tuple |-> TRUE, n |-> 1]
      [] s = "EGOIST" -> [tuple |-> FALSE, n |-> 2]

\* Individual.__deepcopy__ of individual.py: a new object with the id of the
\* original.
root_deepcopy(ind, o) ==
    [obj |-> o, id |-> ind.id, strategy |-> ind.strategy,
     payoff |-> ind.payoff, fitness |-> ind.fitness]

\* Population.get_group
root_get_group(gs, individual) ==
    IF \E g \in DOMAIN gs : \E i \in DOMAIN gs[g] : gs[g][i].id = individual.id
    THEN Min({g \in DOMAIN gs : \E i \in DOMAIN gs[g] : gs[g][i].id = individual.id})
    ELSE None

\* Population.are_in_same_group
are_in_same_group(gs, individual_1, individual_2) ==
    root_get_group(gs, individual_1) = root_get_group(gs, individual_2)

\* Population.get_random_partner: the partners it can return as positions of
\* the flattened population, None for no in-group member, or the exception.
root_get_random_partner(gs, individual, alpha) ==
    LET group_idx == root_get_group(gs, individual)
        flat == Flatten(gs)
        before == Len(Flatten(SubSeq(gs, 1, group_idx - 1)))
        in_group == {before + j : j \in {k \in DOMAIN gs[group_idx] :
                                            gs[group_idx][k].id # individual.id}}
        out_group == {k \in DOMAIN flat : ~EqList(gs[SlotOf(gs, k)], gs[group_idx])}
    IN  UNION { IF in
                THEN IF in_group = {} THEN {[exc |-> "none", partner |-> None]}
                     ELSE {[exc |-> "none", partner |-> k] : k \in in_group}
                ELSE IF out_group = {} THEN {[exc |-> "IndexError", partner |-> None]}
                     ELSE {[exc |-> "none", partner |-> k] : k \in out_group}
                : in \in Flip(alpha, PDen) }

\* `obj.payoff = v`
SetPayoff(gs, o, v) ==
    [g \in DOMAIN gs |->
        [i \in DOMAIN gs[g] |->
            IF gs[g][i].obj = o THEN [gs[g][i] EXCEPT !.payoff = v] ELSE gs[g][i]]]

\* The partner handed on when random_in_group_member returns None.
NoPartner == [obj |-> None, id |-> None, strategy |-> "None", payoff |-> 0, fitness |-> 0]

\* Individual.calculate_payoff of individual.py for the object `self` and
\* `other` (NoPartner for None): other.id is read first, then the matrix is
\* indexed with the two enum values (a tuple is no list index), and the entry
\* is assigned to self.payoff.
root_calculate_payoff(gs, self, other, matrix) ==
    IF other = NoPartner THEN [exc |-> "AttributeError", groups |-> gs]
    ELSE IF RootStrategyValue(self.strategy).tuple \/ RootStrategyValue(other.strategy).tuple
    THEN [exc |-> "TypeError", groups |-> gs]
    ELSE [exc |-> "none",
          groups |-> SetPayoff(gs, self.obj,
                       matrix[RootStrategyValue(self.strategy).n + 1]
                             [RootStrategyValue(other.strategy).n + 1])]

\* The body of play_game's loop for one individual and the partner drawn.
RootEncounter(gs, individual, partner, b, c) ==
    LET matrix == IF are_in_same_group(gs, individual, partner)
                  THEN A_IN_MATRIX(b, c) ELSE A_OUT_MATRIX(b, c)
        first == root_calculate_payoff(gs, individual, partner, matrix)
    IN  IF first.exc # "none" THEN first
        ELSE root_calculate_payoff(first.groups, partner, individual, matrix)

\* round(x) for x = num / den >= 0: to the nearest whole number, a tie to the
\* even one.
RoundHalfEven(num, den) ==
    LET whole == num \div den
        rest == num % den
    IN  IF 2 * rest < den THEN whole
        ELSE IF 2 * rest > den THEN whole + 1
        ELSE IF whole % 2 = 0 THEN whole ELSE whole + 1

\* Population.pair_groups of population.py: the outcomes, each the exception
\* raised or the list of pairs (of slots).
root_pair_groups(gs, kappa) ==
    LET num_groups_involved == RoundHalfEven(Len(gs) * kappa, PDen)
    IN  UNION {
          UNION {
            IF rep.exc # "none" THEN {[exc |-> rep.exc, pairs |-> << >>]}
            ELSE {[exc |-> "none",
                   pairs |-> [i \in 1 .. (Len(sh) \div 2) |-> <<sh[2 * i - 1], sh[2 * i]>>]] :
                     sh \in Shuffles(rep.involved)}
            : rep \in RepairOdd(gs, SlotSeq(S)) }
          : S \in {T \in SUBSET (DOMAIN gs) : Cardinality(T) = num_groups_involved} }

\* Population.reproduce of population.py with select_individual_for_duplication
root_reproduce(gs, lambda_mig) ==
    UNION {
        IF sel.exc # "none" THEN {[exc |-> sel.exc, event |-> "select", groups |-> gs]}
        ELSE LET new_individual == root_deepcopy(Flatten(gs)[sel.selected], Fresh(Used(gs)))
                 others == {i \in DOMAIN gs : i # sel.group}
             IN  UNION {
                    IF migrate
                    THEN IF others = {} THEN {[exc |-> "IndexError", event |-> "migrate", groups |-> gs]}
                         ELSE {[exc |-> "none", event |-> "migrate",
                                groups |-> [gs EXCEPT ![t] = Append(@, new_individual)]] :
                                  t \in others}
                    ELSE {[exc |-> "none", event |-> "stay",
                           groups |-> [gs EXCEPT ![sel.group] = Append(@, new_individual)]]}
                    : migrate \in Flip(lambda_mig, PDen) }
        : sel \in select_individual_for_duplication(gs, Len(gs)) }

RootConfigs == {[c EXCEPT !.kappa = k] : c \in Configs, k \in 0 .. PDen}

InitRoot ==
    /\ call = <<"new">>
    /\ pay = << >>
    /\ cfg \in RootConfigs
    /\ groups = initialize_population(cfg.num_groups, cfg.num_individuals, cfg.mutant_strategy)
    /\ pc = "root"
    /\ cursor = <<0, 0>>
    /\ generation = 0
    /\ retries = 0
    /\ last = "init"
    /\ result = None
    /\ raised = "none"

\* play_game is called
RootPlayGame ==
    /\ pc = "root"
    /\ FirstPos(groups) # <<0, 0>>
    /\ pc' = "root_play_game"
    /\ cursor' = FirstPos(groups)
    /\ call' = <<"play_game">>
    /\ last' = "play_game"
    /\ raised' = "none"
    /\ UNCHANGED <<pay, cfg, groups, generation, retries, result>>

\* Population.play_game of population.py, one individual of its loop at a time.
RootPlayGameStep ==
    /\ pc = "root_play_game"
    /\ LET individual == groups[cursor[1]][cursor[2]]
           flat == Flatten(groups)
           next == NextPos(groups, cursor[1], cursor[2])
       IN  \E drawn \in root_get_random_partner(groups, individual, cfg.alpha) :
              LET out == IF drawn.exc # "none" THEN [exc |-> drawn.exc, groups |-> groups]
                         ELSE RootEncounter(groups, individual,
                                            IF drawn.partner = None THEN NoPartner
                                            ELSE flat[drawn.partner], cfg.b, cfg.c)
              IN  /\ groups' = out.groups
                  /\ raised' = out.exc
                  /\ call' = <<"play_game", Len(Flatten(SubSeq(groups, 1, cursor[1] - 1))) + cursor[2],
                               drawn.partner>>
                  /\ cursor' = IF out.exc = "none" THEN next ELSE cursor
                  /\ pc' = IF out.exc # "none" THEN "raised"
                           ELSE IF next = <<0, 0>> THEN "root" ELSE "root_play_game"
    /\ last' = "encounter"
    /\ UNCHANGED <<pay, cfg, generation, retries, result>>

\* Population.calculate_fitness of population.py
RootCalculateFitness ==
    /\ pc = "root"
    /\ groups' = population_calculate_fitness(groups, cfg.wNum)
    /\ call' = <<"calculate_fitness">>
    /\ last' = "calculate_fitness"
    /\ raised' = "none"
    /\ UNCHANGED <<pay, cfg, pc, cursor, generation, retries, result>>

\* Population.reproduce of population.py
RootReproduce ==
    /\ pc = "root"
    /\ TotalSize(groups) < PopCap
    /\ \E out \in root_reproduce(groups, cfg.lambda_mig) :
          /\ groups' = out.groups
          /\ raised' = out.exc
          /\ last' = out.event
          /\ pc' = IF out.exc = "none" THEN "root" ELSE "raised"
    /\ call' = <<"reproduce">>
    /\ UNCHANGED <<pay, cfg, cursor, generation, retries, result>>

\* Population.pair_groups of population.py
RootPairGroups ==
    /\ pc = "root"
    /\ \E out \in root_pair_groups(groups, cfg.kappa) :
          /\ result' = out.pairs
          /\ raised' = out.exc
          /\ pc' = IF out.exc = "none" THEN "root" ELSE "raised"
    /\ call' = <<"pair_groups">>
    /\ last' = "pair_groups"
    /\ UNCHANGED <<pay, cfg, groups, cursor, generation, retries>>

NextRoot ==
    \/ RootPlayGame
    \/ RootPlayGameStep
    \/ RootCalculateFitness
    \/ RootReproduce
    \/ RootPairGroups

SpecRoot == InitRoot /\ [][NextRoot]_vars

\* An individual that is in no group (test_get_group_none).
Outsider == Individual(0 - 1, "EGOIST", 0, 0)

cooperates(strategy, same_grp) ==
    CASE strategy = "E" -> FALSE
      [] strategy = "A" -> TRUE
      [] strategy = "P" -> same_grp

\* payoff_pair: <<payoff to s1, payoff to s2>>
payoff_pair(s1, s2, b, c, same_group) ==
    LET c1 == cooperates(s1, same_group)
        c2 == cooperates(s2, same_group)
    IN  <<(IF c2 THEN b ELSE 0) - (IF c1 THEN c ELSE 0),
          (IF c1 THEN b ELSE 0) - (IF c2 THEN c ELSE 0)>>

\* pay[g][i] += x
AddPay(p, g, i, x) == [p EXCEPT ![g][i] = @ + x]

\* The body of compute_payoffs' loop for the individual ii of group gg: the
\* arrays `pay` it can leave.
compute_payoffs_of(population, p, gg, ii, b, c) ==
    LET st == population[gg][ii]
        in_group ==
            IF Len(population[gg]) > 1
            THEN {LET pp == payoff_pair(st, population[gg][partner_i], b, c, TRUE)
                  IN  AddPay(AddPay(p, gg, ii, pp[1]), gg, partner_i, pp[2]) :
                      partner_i \in DOMAIN population[gg] \ {ii}}
            ELSE {p}
    IN  IF Len(population) > 1
        THEN UNION { UNION {
                 IF Len(population[other_gg]) > 0
                 THEN {LET pp == payoff_pair(st, population[other_gg][partner_idx], b, c, FALSE)
                       IN  AddPay(AddPay(p1, gg, ii, pp[1]), other_gg, partner_idx, pp[2]) :
                           partner_idx \in DOMAIN population[other_gg]}
                 ELSE {p1}
                 : other_gg \in DOMAIN population \ {gg} }
               : p1 \in in_group }
        ELSE in_group

\* get_all_strategies: the <<group, index>> of everyone, in order.
get_all_strategies(population) ==
    Flatten([g \in DOMAIN population |-> [i \in DOMAIN population[g] |-> <<g, i>>]])

RECURSIVE ComputePayoffsUpTo(_, _, _, _)
ComputePayoffsUpTo(population, k, b, c) ==
    IF k = 0
    THEN {[g \in DOMAIN population |-> [i \in DOMAIN population[g] |-> 0]]}
    ELSE LET at == get_all_strategies(population)[k]
         IN  UNION {compute_payoffs_of(population, p, at[1], at[2], b, c) :
                      p \in ComputePayoffsUpTo(population, k - 1, b, c)}

\* compute_payoffs: the arrays `pay` it can return.
compute_payoffs(population, b, c) ==
    ComputePayoffsUpTo(population, Len(Flatten(population)), b, c)

\* is_homogeneous of simulation3.py: the single strategy, or "None".
sim3_is_homogeneous(population) ==
    LET unique == Range(Flatten(population))
    IN  IF Cardinality(unique) = 1 THEN CHOOSE st \in unique : TRUE ELSE "None"

\* The parents the roulette of the main loop can pick, as positions of
\* flat_list: random.choice when fitness_sum < 1e-12, else the first item whose
\* running sum reaches r = random.random() * fitness_sum.
SelectParent(f) ==
    LET fitness_sum == SumSeq(f)
        cum(k) == SumSeq(SubSeq(f, 1, k))
        reached(k) ==
            /\ cum(k) >= 0
            /\ \A j \in 1 .. (k - 1) : cum(j) < cum(k) /\ cum(j) < fitness_sum
    IN  IF fitness_sum <= 0 THEN DOMAIN f
        ELSE {k \in DOMAIN f : reached(k)}

\* repl = random.randrange(m): the group new_group_2 replaces.
replaced_group(population, target_group) == DOMAIN population

\* Lines 254-313 of the main loop: fitness, the choice of the parent, the
\* child's group, and the split or removal when that group exceeds n.
ReproduceStep(population, p, c) ==
    LET flat_list == get_all_strategies(population)
        f == [k \in DOMAIN flat_list |->
                 (WDen - c.wNum) + c.wNum * p[flat_list[k][1]][flat_list[k][2]]]
    IN  UNION { UNION { UNION {
          LET parent == flat_list[k]
              child_str == population[parent[1]][parent[2]]
              added == [population EXCEPT ![target_group] = Append(@, child_str)]
          IN  IF Len(added[target_group]) > c.n
              THEN IF split
                   THEN {LET half_size == Len(old_group) \div 2
                             new_group_1 == SubSeq(old_group, 1, half_size)
                             new_group_2 == SubSeq(old_group, half_size + 1, Len(old_group))
                         IN  [event |-> "split", target_group |-> target_group, repl |-> repl,
                              population |-> [[added EXCEPT ![target_group] = new_group_1]
                                                EXCEPT ![repl] = new_group_2]] :
                           old_group \in Shuffles(added[target_group]),
                           repl \in replaced_group(population, target_group)}
                   ELSE {[event |-> "remove", target_group |-> target_group, repl |-> 0,
                          population |-> [added EXCEPT ![target_group] = RemoveAt(@, idx_to_remove)]] :
                           idx_to_remove \in DOMAIN added[target_group]}
              ELSE {[event |-> "add", target_group |-> target_group, repl |-> 0,
                     population |-> added]}
          : split \in Flip(c.q, PDen) }
          : target_group \in UNION {IF migrate THEN DOMAIN population ELSE {flat_list[k][1]} :
                                      migrate \in Flip(c.lambd, PDen)} }
          : k \in SelectParent(f) }

\* A variant of the contest of do_conflict_step in which equal sums are
\* always a fair coin.
fight_winners_fair_on_ties(g1, g2, sum1, sum2) ==
    IF sum1 = sum2 THEN {g1, g2}
    ELSE IF sum1 > 0 THEN {g1, g2} ELSE {g2}

\* The winners the contest of do_conflict_step can pick for the pair (g1, g2)
\* with payoff sums sum1 and sum2: a fair coin when both are 0; otherwise g1
\* wins with chance sum1z / (sum1z + sum2z + 1e-12), where sum ** (1 / z) is
\* positive exactly for a positive sum and 0.0 for any other.
fight_winners(g1, g2, sum1, sum2) ==
    IF sum1 = 0 /\ sum2 = 0 THEN {g1, g2}
    ELSE IF sum1 > 0 THEN {g1, g2} ELSE {g2}

\* The fights of do_conflict_step, pair after pair.
RECURSIVE Fight(_, _, _)
Fight(population, p, pairs) ==
    IF pairs = << >> THEN {population}
    ELSE LET g1 == pairs[1][1]
             g2 == pairs[1][2]
             sum1 == SumSeq(p[g1])
             sum2 == SumSeq(p[g2])
             winners == fight_winners(g1, g2, sum1, sum2)
         IN  UNION {Fight([population EXCEPT ![IF winner = g1 THEN g2 ELSE g1] = population[winner]],
                          p, Tail(pairs)) : winner \in winners}

\* do_conflict_step: the populations it can leave.
do_conflict_step(population, p, k) ==
    UNION { UNION {
        Fight(population, p,
              [i \in 1 .. (Len(sh) \div 2) |-> <<sh[Len(sh) - 2 * i + 2], sh[Len(sh) - 2 * i + 1]>>])
        : sh \in Shuffles(SlotSeq(S)) }
        : S \in {T \in SUBSET (DOMAIN population) :
                   \A g \in DOMAIN population : (g \in T) \in Flip(k, PDen)} }

\* The ways the loop over `left` of reshuffle_groups can place the leftover.
RECURSIVE PlaceLeft(_, _)
PlaceLeft(newpop, left) ==
    IF left = << >> THEN {newpop}
    ELSE UNION {PlaceLeft([newpop EXCEPT ![g] = Append(@, Head(left))], Tail(left)) :
                  g \in DOMAIN newpop}

\* reshuffle_groups: the populations it can return.
reshuffle_groups(population) ==
    LET m == Len(population)
    IN  UNION {
          LET step == Len(flat) \div m
          IN  PlaceLeft([gg \in 1 .. m |-> SubSeq(flat, (gg - 1) * step + 1, gg * step)],
                        SubSeq(flat, m * step + 1, Len(flat)))
          : flat \in Shuffles(Flatten(population)) }

\* Counter(all_strats)[st]
Count(all_strats, st) == Cardinality({k \in DOMAIN all_strats : all_strats[k] = st})

\* A variant of the fallback that returns the strategy of the first individual.
first_strategy(population) == Flatten(population)[1]

\* Counter(all_strats).most_common(1)[0][0]: the strategy of the largest
\* count, the one met first among equals.
most_common(population) ==
    LET all_strats == Flatten(population)
        best == {k \in DOMAIN all_strats :
                   \A j \in DOMAIN all_strats :
                      Count(all_strats, all_strats[j]) <= Count(all_strats, all_strats[k])}
    IN  all_strats[Min(best)]

Sim3Configs ==
    { [m |-> m, n |-> n, strategy_mut |-> s, max_steps |-> t, reshuffle |-> r,
       k |-> 1, q |-> 1, lambd |-> 1, wNum |-> 1, b |-> 2, c |-> 1] :
         m \in 1 .. MaxGroups, n \in 1 .. MaxGroupSize, s \in {"A", "P"},
         t \in 0 .. (MaxSteps + 1), r \in BOOLEAN }

InitSim3 ==
    /\ call = <<"simulation3.run_simulation">>
    /\ pay = << >>
    /\ cfg \in Sim3Configs
    /\ \E g_idx \in 1 .. cfg.m : \E i_idx \in 1 .. cfg.n :
          groups = [g \in 1 .. cfg.m |-> [i \in 1 .. cfg.n |->
                       IF g = g_idx /\ i = i_idx THEN cfg.strategy_mut ELSE "E"]]
    /\ pc = "for"
    /\ cursor = <<0, 0>>
    /\ generation = 0
    /\ retries = 0
    /\ last = "init"
    /\ result = None
    /\ raised = "none"

\* for step_i in range(max_steps): pay = compute_payoffs()
Sim3ComputePayoffs ==
    /\ pc = "for"
    /\ generation < cfg.max_steps
    /\ pay' \in compute_payoffs(groups, cfg.b, cfg.c)
    /\ pc' = "reproduce"
    /\ last' = "compute_payoffs"
    /\ UNCHANGED <<call, cfg, groups, cursor, generation, retries, result, raised>>

\* Fitness, reproduction, and the split or removal of lines 254-313; cursor
\* keeps target_group and, after a split, repl.
Sim3Reproduce ==
    /\ pc = "reproduce"
    /\ \E out \in ReproduceStep(groups, pay, cfg) :
          /\ groups' = out.population
          /\ last' = out.event
          /\ cursor' = <<out.target_group, out.repl>>
    /\ pc' = "do_conflict_step"
    /\ UNCHANGED <<call, pay, cfg, generation, retries, result, raised>>

\* do_conflict_step(pay)
Sim3Conflict ==
    /\ pc = "do_conflict_step"
    /\ groups' \in do_conflict_step(groups, pay, cfg.k)
    /\ pay' = << >>
    /\ pc' = IF cfg.reshuffle THEN "reshuffle" ELSE "is_homogeneous"
    /\ last' = "do_conflict_step"
    /\ UNCHANGED <<call, cfg, cursor, generation, retries, result, raised>>

\* if reshuffle: population = reshuffle_groups()
Sim3Reshuffle ==
    /\ pc = "reshuffle"
    /\ groups' \in reshuffle_groups(groups)
    /\ pc' = "is_homogeneous"
    /\ last' = "reshuffle_groups"
    /\ UNCHANGED <<call, pay, cfg, cursor, generation, retries, result, raised>>

\* winner = is_homogeneous(); if winner is not None: return winner
Sim3Check ==
    /\ pc = "is_homogeneous"
    /\ generation' = generation + 1
    /\ LET winner == sim3_is_homogeneous(groups)
       IN  IF winner # "None"
           THEN /\ result' = winner
                /\ pc' = "returned"
                /\ last' = "return winner"
           ELSE /\ result' = result
                /\ pc' = "for"
                /\ last' = "next"
    /\ UNCHANGED <<call, pay, cfg, groups, cursor, retries, raised>>

\* After the loop: return maj_str
Sim3Fallback ==
    /\ pc = "for"
    /\ generation >= cfg.max_steps
    /\ result' = most_common(groups)
    /\ pc' = "returned"
    /\ last' = "return maj_str"
    /\ UNCHANGED <<call, pay, cfg, groups, cursor, generation, retries, raised>>

NextSim3 ==
    \/ Sim3ComputePayoffs
    \/ Sim3Reproduce
    \/ Sim3Conflict
    \/ Sim3Reshuffle
    \/ Sim3Check
    \/ Sim3Fallback

SpecSim3 == InitSim3 /\ [][NextSim3]_vars

\* C14: run_simulation of simulation3.py returns, when the population is
\* homogeneous at the end of a generation, that single strategy at that
\* generation, and no generation is started from a homogeneous population
\* after it; when max_steps generations have run without that, it returns a
\* strategy whose count in the final population is maximal.
C14_ReturnValue ==
    LET all_strats == Flatten(groups)
    IN  /\ (pc = "returned" /\ last = "return winner") =>
              /\ \A k \in DOMAIN all_strats : all_strats[k] = result
              /\ generation \in 1 .. cfg.max_steps
        /\ (pc = "returned" /\ last = "return maj_str") =>
              /\ generation = cfg.max_steps
              /\ \A k \in DOMAIN all_strats :
                    Count(all_strats, all_strats[k]) <= Count(all_strats, result)
              /\ Count(all_strats, result) >= 1
        /\ (pc \notin {"for", "returned"}) => generation < cfg.max_steps
        /\ (pc = "for" /\ generation >= 1) => sim3_is_homogeneous(groups) = "None"

\* max_steps generations ran and the fallback returned the plurality strategy
\* of a population that holds two strategies in different numbers.
C14_FallbackAfterMaxSteps ==
    /\ pc = "returned"
    /\ last = "return maj_str"
    /\ generation = cfg.max_steps
    /\ generation >= 1
    /\ \E k \in DOMAIN Flatten(groups) :
          Count(Flatten(groups), Flatten(groups)[k]) < Count(Flatten(groups), result)

(***************************************************************************)
(* The interaction phase of models/population.py.                          *)
(***************************************************************************)
\* C21: in play_game every individual is the actor of an encounter; an actor
\* alone in its group that draws the in-group branch is given an out-group
\* partner, and no actor is passed over without an encounter.
C21_NoActorSkipped ==
    last # "no_partner"

\* An actor alone in its group, with members in other groups, was passed over.
C21_LoneActorSkipped ==
    /\ last = "no_partner"
    /\ \E g, h \in DOMAIN groups : g # h /\ Len(groups[g]) = 1 /\ Len(groups[h]) >= 1

\* C22: for the actor play_game has reached, in any reachable population,
\* every partner that can be drawn is another individual than the actor; the
\* out-group branch draws from exactly the members of the other slots; and
\* the in-group matrix is used exactly when actor and partner are held in the
\* same slot.
C22_PartnerAndMatrix ==
    (pc = "play_game") =>
        LET individual == groups[cursor[1]][cursor[2]]
            flat == Flatten(groups)
            group_idx == get_group_index(groups, individual)
        IN  /\ group_idx = cursor[1]
            /\ \A k \in get_random_partner(groups, individual, cfg.alpha) \ {None} :
                  /\ flat[k].obj # individual.obj
                  /\ LET matrix == IF SlotOf(groups, k) = cursor[1]
                                    THEN A_IN_MATRIX(cfg.b, cfg.c) ELSE A_OUT_MATRIX(cfg.b, cfg.c)
                     IN  Encounter(groups, individual, flat[k], cfg.b, cfg.c) =
                            AddPayoff(AddPayoff(groups, individual.obj,
                                                MatrixEntry(matrix, individual.strategy, flat[k].strategy)),
                                      flat[k].obj,
                                      MatrixEntry(matrix, flat[k].strategy, individual.strategy))
            /\ random_out_group_member(groups, group_idx) \ {None} =
                  {k \in DOMAIN flat : SlotOf(groups, k) # cursor[1]}
            /\ random_in_group_member(groups, individual, group_idx) \ {None} \subseteq
                  {k \in DOMAIN flat : SlotOf(groups, k) = cursor[1]}

\* play_game has reached an actor that is held in two slots.
C22_ActorInTwoSlots ==
    /\ pc = "play_game"
    /\ \E g \in DOMAIN groups :
          /\ g # cursor[1]
          /\ \E i \in DOMAIN groups[g] : groups[g][i].obj = groups[cursor[1]][cursor[2]].obj

(***************************************************************************)
(* The payoff matrices of constants.py, entry by entry, against            *)
(* payoff_pair of simulation3.py.                                          *)
(***************************************************************************)
\* b and c are drawn up to this number.
MaxPayoffParam == 3

\* payoff_matrix[self.strategy.value][other.strategy.value] with the Strategy
\* of constants.py: a tuple value is no list index.
payoff_matrix_entry(matrix, s, o) ==
    IF RootStrategyValue(s).tuple \/ RootStrategyValue(o).tuple
    THEN [exc |-> "TypeError", value |-> None]
    ELSE [exc |-> "none",
          value |-> matrix[RootStrategyValue(s).n + 1][RootStrategyValue(o).n + 1]]

\* The letter simulation3.py uses for a strategy.
Letter(s) ==
    CASE s = "ALTRUIST" -> "A"
      [] s = "PAROCHIALIST" -> "P"
      [] s = "EGOIST" -> "E"

InitMatrix ==
    /\ \E s \in Strategy, o \in Strategy, same_group \in BOOLEAN :
          call = <<"calculate_payoff", s, o, same_group>>
    /\ pay = << >>
    /\ cfg \in {[b |-> b, c |-> c] : b \in 1 .. MaxPayoffParam, c \in 0 .. (MaxPayoffParam - 1)}
    /\ groups = << >>
    /\ pc = "index"
    /\ cursor = <<0, 0>>
    /\ generation = 0
    /\ retries = 0
    /\ last = "init"
    /\ result = None
    /\ raised = "none"

\* The matrix is indexed with the values of Strategy of constants.py.
IndexWithStrategyValue ==
    /\ pc = "index"
    /\ LET matrix == IF call[4] THEN A_IN_MATRIX(cfg.b, cfg.c) ELSE A_OUT_MATRIX(cfg.b, cfg.c)
           out == payoff_matrix_entry(matrix, call[2], call[3])
       IN  /\ result' = out.value
           /\ raised' = out.exc
    /\ pc' = "indexed"
    /\ last' = "Strategy.value"
    /\ UNCHANGED <<call, pay, cfg, groups, cursor, generation, retries>>

\* The matrix is indexed with the row and column numbers 0, 1, 2.
IndexWithNumber ==
    /\ pc = "index"
    /\ LET matrix == IF call[4] THEN A_IN_MATRIX(cfg.b, cfg.c) ELSE A_OUT_MATRIX(cfg.b, cfg.c)
       IN  result' = MatrixEntry(matrix, call[2], call[3])
    /\ raised' = "none"
    /\ pc' = "indexed"
    /\ last' = "number"
    /\ UNCHANGED <<call, pay, cfg, groups, cursor, generation, retries>>

NextMatrix ==
    \/ IndexWithStrategyValue
    \/ IndexWithNumber

SpecMatrix == InitMatrix /\ [][NextMatrix]_vars

\* C23: for every ordered pair of strategies and for in-group and out-group
\* encounters alike, payoff_matrix[actor.strategy.value][partner.strategy.value]
\* is defined and is what payoff_pair gives its first player: b if the partner
\* cooperates, minus c if the actor cooperates.
C23_EntryIsPayoffPair ==
    (pc = "indexed") =>
        /\ raised = "none"
        /\ result = payoff_pair(Letter(call[2]), Letter(call[3]), cfg.b, cfg.c, call[4])[1]

\* Indexing with the value of ALTRUIST, met by an EGOIST in-group, raised.
C23_TupleIndex ==
    /\ pc = "indexed"
    /\ call = <<"calculate_payoff", "ALTRUIST", "EGOIST", TRUE>>
    /\ raised = "TypeError"

\* The entries of the two matrices, taken by row and column number, are what
\* payoff_pair gives its first player.
MatrixValuesArePayoffPair ==
    (pc = "indexed" /\ last = "number") =>
        result = payoff_pair(Letter(call[2]), Letter(call[3]), cfg.b, cfg.c, call[4])[1]

(***************************************************************************)
(* Reproduction of models/population.py.                                   *)
(***************************************************************************)
\* C24: the individual reproduce adds to a group has the strategy of an
\* individual of the population and payoff 0 and fitness 0 when it is inserted.
C24_CloneStartsAtZero ==
    [][(Reproduce /\ raised' = "none") =>
         \A t \in DOMAIN groups :
            Len(groups'[t]) = Len(groups[t]) + 1 =>
               LET new_individual == groups'[t][Len(groups'[t])]
               IN  /\ new_individual.payoff = 0
                   /\ new_individual.fitness = 0
                   /\ \E k \in DOMAIN Flatten(groups) :
                         Flatten(groups)[k].strategy = new_individual.strategy]_vars

\* A clone was inserted with the fitness its parent had, as the last member of
\* its group.
C24_CloneCarriesFitness ==
    /\ pc = "conflict_groups"
    /\ last \in {"stay", "migrate"}
    /\ \E t \in DOMAIN groups :
          /\ Len(groups[t]) >= 1
          /\ groups[t][Len(groups[t])].fitness # 0

\* C26: in any reachable population in which run_simulation calls reproduce,
\* the clone is appended to one group and nothing else changes; when it does
\* not migrate that group holds the parent, when it migrates that group does
\* not hold the parent, and every group that does not hold the parent can be
\* the one.
C26_CloneTarget ==
    (pc = "reproduce" /\ TotalSize(groups) < PopCap) =>
        LET flat == Flatten(groups)
            outs == reproduce(groups, cfg.num_groups, cfg.lambda_mig)
        IN  /\ \A out \in outs :
                  out.exc = "none" =>
                     LET new_individual == out.groups[out.target][Len(out.groups[out.target])]
                     IN  /\ out.groups = [groups EXCEPT ![out.target] = Append(@, new_individual)]
                         /\ new_individual.strategy = flat[out.parent].strategy
                         /\ ~\E k \in DOMAIN flat : flat[k].obj = new_individual.obj
                                                      \/ flat[k].id = new_individual.id
                         /\ (out.event = "stay") <=> In(flat[out.parent], groups[out.target])
                         /\ (out.event = "migrate") <=> ~In(flat[out.parent], groups[out.target])
            /\ \A out \in outs : out.exc = "none" =>
                  \A t \in {g \in DOMAIN groups : ~In(flat[out.parent], groups[g])} :
                     \E other \in outs :
                        other.parent = out.parent /\ other.event = "migrate" /\ other.target = t

\* reproduce is called on a population in which an individual is held in two
\* slots.
C26_ParentInTwoSlots ==
    /\ pc = "reproduce"
    /\ TotalSize(groups) < PopCap
    /\ \E g, h \in DOMAIN groups :
          /\ g # h
          /\ \E i \in DOMAIN groups[g] : In(groups[g][i], groups[h])

(***************************************************************************)
(* reproduce and calculate_fitness of models/population.py called on a     *)
(* population as the constructor leaves it: every fitness is 0 until       *)
(* calculate_fitness is called.                                            *)
(***************************************************************************)
InitReproduce ==
    /\ call = <<"new">>
    /\ pay = << >>
    /\ cfg \in Configs
    /\ groups = initialize_population(cfg.num_groups, cfg.num_individuals, cfg.mutant_strategy)
    /\ pc = "constructed"
    /\ cursor = <<0, 0>>
    /\ generation = 0
    /\ retries = 0
    /\ last = "init"
    /\ result = None
    /\ raised = "none"

\* population.reproduce()
CallReproduce ==
    /\ pc = "constructed"
    /\ TotalSize(groups) < PopCap
    /\ \E out \in reproduce(groups, cfg.num_groups, cfg.lambda_mig) :
          /\ groups' = out.groups
          /\ raised' = out.exc
          /\ pc' = IF out.exc = "none" THEN "constructed" ELSE "raised"
          /\ last' = out.event
          /\ cursor' = <<out.parent, out.target>>
    /\ call' = <<"reproduce", SumSeq([k \in DOMAIN Flatten(groups) |-> Flatten(groups)[k].fitness])>>
    /\ UNCHANGED <<pay, cfg, generation, retries, result>>

\* population.calculate_fitness()
CallCalculateFitness ==
    /\ pc = "constructed"
    /\ groups' = population_calculate_fitness(groups, cfg.wNum)
    /\ call' = <<"calculate_fitness">>
    /\ last' = "calculate_fitness"
    /\ UNCHANGED <<pay, cfg, pc, cursor, generation, retries, result, raised>>

NextReproduce ==
    \/ CallReproduce
    \/ CallCalculateFitness

SpecReproduce == InitReproduce /\ [][NextReproduce]_vars

\* The sum of the fitness of the whole population.
TotalFitness(gs) == SumSeq([k \in DOMAIN Flatten(gs) |-> Flatten(gs)[k].fitness])

classes_groups_involved(gs, kappa) ==
    LET num_groups_involved == RoundHalfEven(Len(gs) * kappa, PDen)
    IN  {SlotSeq(S) \o SlotSeq(F) :
           S \in {T \in SUBSET (DOMAIN gs) : Cardinality(T) = num_groups_involved},
           F \in Flagged(gs, kappa)}

\* Groups_Manager.pair_groups: the outcomes, each the exception raised or the
\* list of pairs (of slots).
classes_pair_groups(gs, kappa) ==
    UNION {
        UNION {
            IF rep.exc # "none" THEN {[exc |-> rep.exc, pairs |-> << >>]}
            ELSE {[exc |-> "none",
                   pairs |-> [i \in 1 .. (Len(sh) \div 2) |-> <<sh[2 * i - 1], sh[2 * i]>>]] :
                     sh \in Shuffles(rep.involved)}
            : rep \in RepairOdd(gs, involved) }
        : involved \in classes_groups_involved(gs, kappa) }

ClassesPairConfigs ==
    { [num_groups |-> m, num_individuals |-> n, mutant_strategy |-> s, kappa |-> k] :
         m \in 1 .. (MaxGroups + 1), n \in 1 .. MaxGroupSize, s \in MutantStrategies,
         k \in 0 .. PDen }

InitClassesPair ==
    /\ call = <<"new">>
    /\ pay = << >>
    /\ cfg \in ClassesPairConfigs
    /\ groups = initialize_population(cfg.num_groups, cfg.num_individuals, cfg.mutant_strategy)
    /\ pc = "constructed"
    /\ cursor = <<0, 0>>
    /\ generation = 0
    /\ retries = 0
    /\ last = "init"
    /\ result = None
    /\ raised = "none"

\* pair_groups()
ClassesPairGroups ==
    /\ pc = "constructed"
    /\ \E out \in classes_pair_groups(groups, cfg.kappa) :
          /\ result' = out.pairs
          /\ raised' = out.exc
    /\ pc' = "paired"
    /\ call' = <<"pair_groups">>
    /\ last' = "pair_groups"
    /\ UNCHANGED <<pay, cfg, groups, cursor, generation, retries>>

NextClassesPair == ClassesPairGroups

SpecClassesPair == InitClassesPair /\ [][NextClassesPair]_vars

\* C28: for every kappa and every number of groups, pair_groups of
\* classes/population.py raises nothing in its repair of an odd count, and the
\* pairs it returns use each group slot at most once: no group is paired with
\* itself and none is in two pairs.
C28_PairsUseEachGroupOnce ==
    (pc = "paired") =>
        /\ raised = "none"
        /\ \A i, j \in DOMAIN result : \A a, b \in 1 .. 2 :
              result[i][a] = result[j][b] => (i = j /\ a = b)

\* pair_groups returned a pair made of one group twice.
C28_PairedWithItself ==
    /\ pc = "paired"
    /\ raised = "none"
    /\ \E i \in DOMAIN result : result[i][1] = result[i][2]

(***************************************************************************)
(* run_simulation of models/population.py on a population of more than two *)
(* groups.                                                                 *)
(***************************************************************************)
ConflictConfigs ==
    { [num_groups |-> MaxGroups + 1, num_individuals |-> n, mutant_strategy |-> s,
       alpha |-> 1, kappa |-> 1, q |-> 1, lambda_mig |-> 1,
       zInv |-> 2, wNum |-> 1, b |-> 2, c |-> 1] :
         n \in 1 .. (MaxGroupSize - 1), s \in MutantStrategies }

InitConflict ==
    /\ call = <<"run_simulation">>
    /\ pay = << >>
    /\ cfg \in ConflictConfigs
    /\ groups = initialize_population(cfg.num_groups, cfg.num_individuals, cfg.mutant_strategy)
    /\ pc = "is_homogeneous"
    /\ cursor = <<0, 0>>
    /\ generation = 0
    /\ retries = 0
    /\ last = "init"
    /\ result = None
    /\ raised = "none"

SpecConflict == InitConflict /\ [][Next]_vars

\* What conflict_groups is said to do to the population `before`, for one of
\* its outcomes: for each resolved pair the overwritten slot is the loser's,
\* it holds as many members as the winner with the winner's strategies, none
\* of them an individual of `before`, and the winner's slot is as it was; the
\* slots in no pair are as they were.
ConflictFrame(before, out) ==
    LET paired == {out.log[k].winner : k \in DOMAIN out.log}
                     \cup {out.log[k].loser : k \in DOMAIN out.log}
    IN  /\ Len(out.groups) = Len(before)
        /\ \A k \in DOMAIN out.log :
              LET winner == before[out.log[k].winner]
                  new_group == out.groups[out.log[k].loser]
              IN  /\ out.log[k].index = out.log[k].loser
                  /\ out.groups[out.log[k].winner] = winner
                  /\ Len(new_group) = Len(winner)
                  /\ \A i \in DOMAIN winner :
                        /\ new_group[i].strategy = winner[i].strategy
                        /\ \A x \in Range(Flatten(before)) :
                              new_group[i].obj # x.obj /\ new_group[i].id # x.id
        /\ \A g \in DOMAIN before : g \notin paired => out.groups[g] = before[g]

\* C30: whenever run_simulation calls conflict_groups, every outcome of the
\* call that raises nothing leaves, in the slot of each pair's loser, a group
\* of the winner's size and strategies made of new individuals, and leaves the
\* winner's slot and the slots in no pair as they were.
C30_LoserReplacedByCopy ==
    (pc = "conflict_groups" /\ raised = "none") =>
        \A out \in conflict_groups(groups, cfg.kappa, cfg.zInv) :
            out.exc = "none" => ConflictFrame(groups, out)

\* conflict_groups is called on a population of both strategies in which two
\* slots hold equal lists and a third does not.
C30_EqualSlotsAtConflict ==
    /\ pc = "conflict_groups"
    /\ raised = "none"
    /\ \E g, h, k \in DOMAIN groups :
          /\ g < h
          /\ groups[g] # << >>
          /\ EqList(groups[g], groups[h])
          /\ ~EqList(groups[g], groups[k])
          /\ groups[k] # << >>

(***************************************************************************)
(* The conflict phase of population.py: select_conflict_groups,            *)
(* pairs_conflict_groups and conflict_groups_with_conflict_individuals,    *)
(* called on populations as population.py lays them out.                   *)
(***************************************************************************)
\* The lists conflict_individuals that the loop `if random.random() < kappa`
\* over every individual of every group can build, as sets of positions of
\* the flattened population.
ConflictFlags(gs, kappa) ==
    {F \in SUBSET (DOMAIN Flatten(gs)) :
        \A p \in DOMAIN Flatten(gs) : (p \in F) \in Flip(kappa, PDen)}

\* groups_involved of select_conflict_groups after the slots 1 .. g: a group is
\* appended at its first flagged member unless an equal list is already there.
RECURSIVE root_groups_involved(_, _, _)
root_groups_involved(gs, F, g) ==
    IF g = 0 THEN << >>
    ELSE LET involved == root_groups_involved(gs, F, g - 1)
         IN  IF /\ \E p \in F : SlotOf(gs, p) = g
                /\ ~\E j \in DOMAIN involved : EqList(gs[involved[j]], gs[g])
             THEN Append(involved, g)
             ELSE involved

\* Population.select_conflict_groups
select_conflict_groups(gs, kappa) ==
    {[conflict_individuals |-> F,
      groups_involved |-> root_groups_involved(gs, F, Len(gs))] :
        F \in ConflictFlags(gs, kappa)}

\* Population.pairs_conflict_groups
pairs_conflict_groups(gs, kappa) ==
    UNION {
        UNION {
            IF rep.exc # "none"
            THEN {[exc |-> rep.exc, conflict_individuals |-> sel.conflict_individuals,
                   pairs |-> << >>]}
            ELSE {[exc |-> "none", conflict_individuals |-> sel.conflict_individuals,
                   pairs |-> [i \in 1 .. (Len(sh) \div 2) |-> <<sh[2 * i - 1], sh[2 * i]>>]] :
                     sh \in Shuffles(rep.involved)}
            : rep \in RepairOdd(gs, sel.groups_involved) }
        : sel \in select_conflict_groups(gs, kappa) }

\* sum(ind.payoff if ind in conflict_individuals else 0 for ind in group)
ConflictPayoff(gs0, group, conflict_individuals) ==
    SumSeq([i \in DOMAIN group |->
               IF \E p \in conflict_individuals : Eq(Flatten(gs0)[p], group[i])
               THEN group[i].payoff ELSE 0])

\* The loop of conflict_groups_with_conflict_individuals over the pairs; log
\* keeps, for each pair resolved, its two slots and the two sums compared.
RECURSIVE RootResolvePairs(_, _, _, _, _, _)
RootResolvePairs(gs0, gs, pairs, zInv, conflict_individuals, log) ==
    IF pairs = << >> THEN {[exc |-> "none", groups |-> gs, log |-> log]}
    ELSE
      LET group_1 == gs0[Head(pairs)[1]]
          group_2 == gs0[Head(pairs)[2]]
          payoff_1 == ConflictPayoff(gs0, group_1, conflict_individuals)
          payoff_2 == ConflictPayoff(gs0, group_2, conflict_individuals)
          win == WinProbability(payoff_1, payoff_2, zInv)
          entry == [group_1 |-> Head(pairs)[1], group_2 |-> Head(pairs)[2],
                    payoff_1 |-> payoff_1, payoff_2 |-> payoff_2]
      IN  IF win.exc # "none" THEN {[exc |-> win.exc, groups |-> gs, log |-> log]}
          ELSE UNION {
                 LET winner == IF first_wins THEN group_1 ELSE group_2
                     loser == IF first_wins THEN group_2 ELSE group_1
                     fresh == FreshSeq(Used(gs) \cup Used(gs0), Len(winner))
                     new_group == [i \in DOMAIN winner |-> root_deepcopy(winner[i], fresh[i])]
                     loser_index == IndexOf(gs, loser)
                 IN  IF loser_index = None
                     THEN {[exc |-> "ValueError", groups |-> gs, log |-> log]}
                     ELSE RootResolvePairs(gs0, [gs EXCEPT ![loser_index] = new_group],
                                           Tail(pairs), zInv, conflict_individuals,
                                           Append(log, entry))
                 : first_wins \in Flip(win.num, win.den) }

\* Population.conflict_groups_with_conflict_individuals
conflict_groups_with_conflict_individuals(gs, kappa, zInv) ==
    UNION {
        IF pg.exc # "none" THEN {[exc |-> pg.exc, groups |-> gs, log |-> << >>]}
        ELSE RootResolvePairs(gs, gs, pg.pairs, zInv, pg.conflict_individuals, << >>)
        : pg \in pairs_conflict_groups(gs, kappa) }

\* conflict_groups_with_conflict_individuals is called, at most MaxSteps
\* times; call keeps the population it was called on and result the pairs it
\* resolved.
RootConflictGroups ==
    /\ pc = "root"
    /\ generation < MaxSteps
    /\ \E out \in conflict_groups_with_conflict_individuals(groups, cfg.kappa, cfg.zInv) :
          /\ groups' = out.groups
          /\ raised' = out.exc
          /\ result' = out.log
          /\ pc' = IF out.exc = "none" THEN "root" ELSE "raised"
    /\ call' = <<"conflict_groups_with_conflict_individuals", groups>>
    /\ generation' = generation + 1
    /\ last' = "conflict"
    /\ UNCHANGED <<pay, cfg, cursor, retries>>

NextRootConflict ==
    \/ RootPlayGame
    \/ RootPlayGameStep
    \/ RootCalculateFitness
    \/ RootReproduce
    \/ RootConflictGroups

SpecRootConflict == InitRoot /\ [][NextRootConflict]_vars

\* Of the equally likely lists conflict_individuals, those with which the
\* group in slot g is flagged for the conflict.
FlagsInvolving(gs, kappa, g) ==
    {F \in ConflictFlags(gs, kappa) : \E p \in F : SlotOf(gs, p) = g}

Sim3TieConfigs ==
    { [m |-> MaxGroups + 1, n |-> MaxGroupSize, strategy_mut |-> s,
       max_steps |-> MaxSteps + 1, reshuffle |-> FALSE,
       k |-> 1, q |-> PDen, lambd |-> 0, wNum |-> 1, b |-> 2, c |-> 1] :
         s \in {"A", "P"} }

InitSim3Ties ==
    /\ call = <<"simulation3.run_simulation">>
    /\ pay = << >>
    /\ cfg \in Sim3TieConfigs
    /\ \E g_idx \in 1 .. cfg.m : \E i_idx \in 1 .. cfg.n :
          groups = [g \in 1 .. cfg.m |-> [i \in 1 .. cfg.n |->
                       IF g = g_idx /\ i = i_idx THEN cfg.strategy_mut ELSE "E"]]
    /\ pc = "for"
    /\ cursor = <<0, 0>>
    /\ generation = 0
    /\ retries = 0
    /\ last = "init"
    /\ result = None
    /\ raised = "none"

\* The steps of the main loop when reshuffle is False.
NextSim3Ties ==
    \/ Sim3ComputePayoffs
    \/ Sim3Reproduce
    \/ Sim3Conflict
    \/ Sim3Check
    \/ Sim3Fallback

SpecSim3Ties == InitSim3Ties /\ [][NextSim3Ties]_vars

ContestConfigs == {[c EXCEPT !.zInv = zInv] : c \in Configs, zInv \in {1, 2}}

InitContest ==
    /\ call = <<"run_simulation">>
    /\ pay = << >>
    /\ cfg \in ContestConfigs
    /\ groups = initialize_population(cfg.num_groups, cfg.num_individuals, cfg.mutant_strategy)
    /\ pc = "is_homogeneous"
    /\ cursor = <<0, 0>>
    /\ generation = 0
    /\ retries = 0
    /\ last = "init"
    /\ result = None
    /\ raised = "none"

SpecContest == InitContest /\ [][Next]_vars

\* C32: conflict_groups never stops run_simulation with a division by zero,
\* whatever the payoff sums of the paired groups and for z = 1 and z = 1/2.
C32_ContestNeverRaises ==
    raised # "ZeroDivisionError"

\* conflict_groups was called with z = 1 on two groups whose payoff sums are
\* opposite, and raised.
C32_OppositeSumsRaise ==
    /\ pc = "raised"
    /\ raised = "ZeroDivisionError"
    /\ cfg.zInv = 1
    /\ \E g, h \in DOMAIN groups :
          /\ GroupPayoff(groups[g]) # 0
          /\ GroupPayoff(groups[g]) + GroupPayoff(groups[h]) = 0

\* C33: whenever run_simulation calls conflict_groups, for every two groups
\* that can be paired, win_probability_1 is between 0 and 1, and it is at
\* least 1/2 when the first group's payoff sum is not less than the second's.
C33_WinProbabilityFollowsPayoff ==
    pc = "conflict_groups" =>
        \A g, h \in DOMAIN groups : g # h =>
            LET payoff_1 == GroupPayoff(groups[g])
                payoff_2 == GroupPayoff(groups[h])
                win == WinProbability(payoff_1, payoff_2, cfg.zInv)
            IN  win.exc = "none" =>
                   /\ 0 <= win.num
                   /\ win.num <= win.den
                   /\ payoff_1 >= payoff_2 => 2 * win.num >= win.den

\* conflict_groups is called with z = 1/2 on a group of negative payoff sum
\* and a group of larger payoff sum that is the less likely winner.
C33_NegativeSumFavoured ==
    /\ pc = "conflict_groups"
    /\ cfg.zInv = 2
    /\ \E g, h \in DOMAIN groups :
          LET payoff_1 == GroupPayoff(groups[g])
              payoff_2 == GroupPayoff(groups[h])
              win == WinProbability(payoff_1, payoff_2, cfg.zInv)
          IN  /\ payoff_2 < 0
              /\ payoff_1 > payoff_2
              /\ win.exc = "none"
              /\ 2 * win.num < win.den

(***************************************************************************)
(* The retry of split_group (models/population.py).                        *)
(***************************************************************************)
\* The places <<g, j>> of the population gs that hold the object o.
PlacesOf(gs, o) ==
    {pl \in (DOMAIN gs) \X (1 .. Len(Flatten(gs))) :
        pl[2] \in DOMAIN gs[pl[1]] /\ gs[pl[1]][pl[2]].obj = o}

\* C34: whenever split_groups calls split_group on an oversized group and the
\* random assignment puts every member on one side, every outcome of the call
\* that returns leaves the split slot not empty, has overwritten exactly one
\* other slot, which is not empty either, and holds every individual of the
\* original group in exactly one place.
C34_RetryEndsCorrectly ==
    (/\ pc = "split_groups"
     /\ cursor[1] \in DOMAIN groups
     /\ Len(groups[cursor[1]]) > cfg.num_individuals) =>
        \A out \in split_group(groups, cursor[1], MaxSplitRetry - retries) :
            (out.exc = "none" /\ out.retries > 0) =>
                LET index == cursor[1]
                    group == groups[index]
                    overwritten == {g \in DOMAIN groups \ {index} : out.groups[g] # groups[g]}
                IN  /\ out.groups[index] # << >>
                    /\ Cardinality(overwritten) = 1
                    /\ \A g \in overwritten : out.groups[g] # << >>
                    /\ \A i \in DOMAIN group :
                          Cardinality(PlacesOf(out.groups, group[i].obj)) = 1

\* split_group has returned after a retry and a slot is empty.
C34_EmptySlotAfterRetry ==
    /\ last = "split_group"
    /\ raised = "none"
    /\ retries > 0
    /\ \E g \in DOMAIN groups : groups[g] = << >>

(***************************************************************************)
(* The split branch of run_simulation in simulation3.py.                   *)
(***************************************************************************)
\* C35: whenever the main loop of simulation3.py reproduces, in every outcome
\* that splits the child's group the second half overwrites another group
\* than the one split, the sizes of the two groups afterwards sum to the size
\* of the group before the split, and every other group is unchanged.
C35_SplitKeepsBothHalves ==
    pc = "reproduce" =>
        \A out \in ReproduceStep(groups, pay, cfg) :
            out.event = "split" =>
                /\ out.repl # out.target_group
                /\ Len(out.population[out.target_group]) + Len(out.population[out.repl])
                      = Len(groups[out.target_group]) + 1
                /\ \A g \in DOMAIN groups \ {out.target_group, out.repl} :
                      out.population[g] = groups[g]

\* A group of a population of two groups was split and its second half
\* replaced the group itself.
C35_HalfOverwritesItself ==
    /\ pc = "do_conflict_step"
    /\ last = "split"
    /\ cfg.m = 2
    /\ cursor[1] = cursor[2]
    /\ Len(groups[cursor[1]]) * 2 >= cfg.n + 1

(***************************************************************************)
(* Population.run_simulation of classes/population.py.  The module reads   *)
(* n, q, z, lambda_mig, alpha and kappa from the configuration; the        *)
(* population is built with num_individuals equal to that n.               *)
(***************************************************************************)
\* Interaction_Manager.random_out_group_member: the outcomes, each the
\* exception raised or the position (in the flattened population) of the
\* individual drawn from the groups that differ from the excluded one.
classes_random_out_group_member(gs, exclude_group_index) ==
    LET exclude_group == gs[exclude_group_index]
        out_group == {k \in 1 .. TotalSize(gs) : ~EqList(gs[SlotOf(gs, k)], exclude_group)}
    IN  IF out_group = {} THEN {[exc |-> "IndexError", partner |-> None]}
        ELSE {[exc |-> "none", partner |-> k] : k \in out_group}

\* Interaction_Manager.random_in_group_member: a member of the group other
\* than the individual, or an out-group member when the group has fewer than
\* two members.
classes_random_in_group_member(gs, individual, group_index) ==
    LET before == Len(Flatten(SubSeq(gs, 1, group_index - 1)))
        in_group == {before + j : j \in {i \in DOMAIN gs[group_index] :
                                            ~classes_Eq(gs[group_index][i], individual)}}
    IN  IF Len(gs[group_index]) >= 2
        THEN IF in_group = {} THEN {[exc |-> "IndexError", partner |-> None]}
             ELSE {[exc |-> "none", partner |-> k] : k \in in_group}
        ELSE classes_random_out_group_member(gs, group_index)

\* Interaction_Manager.get_random_partner
classes_get_random_partner(gs, individual, alpha) ==
    LET group_idx == get_group_index(gs, individual)
    IN  IF group_idx = None THEN {[exc |-> "TypeError", partner |-> None]}
        ELSE UNION { IF in THEN classes_random_in_group_member(gs, individual, group_idx)
                     ELSE classes_random_out_group_member(gs, group_idx)
                     : in \in Flip(alpha, PDen) }

\* Individual.generate_own_clone: a new individual with an identity of its own,
\* the strategy of the original and no payoff or fitness yet.
generate_own_clone(ind, o) == Individual(o, ind.strategy, 0, 0)

\* Reproduction_Manager.select_individual_for_duplication: the outcomes, each
\* the exception raised or the new individual, the position (in the flattened
\* population) of the individual it copies and the group index returned.
classes_select_individual_for_duplication(gs) ==
    LET individuals == Flatten(gs)
        fitness == [k \in DOMAIN individuals |-> individuals[k].fitness]
        total_fitness == SumSeq(fitness)
        index(k) == Min({j \in DOMAIN individuals : classes_Eq(individuals[j], individuals[k])})
        o == Fresh(Used(gs))
    IN  IF total_fitness = 0
        THEN UNION { IF Len(gs[g]) = 0
                     THEN {[exc |-> "IndexError", selected |-> None, group |-> g,
                            new_individual |-> None]}
                     ELSE {[exc |-> "none",
                            selected |-> Len(Flatten(SubSeq(gs, 1, g - 1))) + i,
                            group |-> g,
                            new_individual |-> deepcopy(gs[g][i], o)] : i \in DOMAIN gs[g]}
                     : g \in DOMAIN gs }
        ELSE {[exc |-> "none", selected |-> k, group |-> SlotOf(gs, index(k)),
               new_individual |-> generate_own_clone(individuals[k], o)] :
                 k \in random_choices(fitness, total_fitness)}

\* Reproduction_Manager.reproduce: the outcomes, each the exception raised or
\* the new list of groups and the group the new individual was appended to.
classes_reproduce(gs, lambda_mig) ==
    UNION {
        IF sel.exc # "none"
        THEN {[exc |-> sel.exc, event |-> "select", groups |-> gs, target |-> None]}
        ELSE LET others == {i \in DOMAIN gs : i # sel.group}
             IN  UNION {
                    IF migrate
                    THEN IF others = {}
                         THEN {[exc |-> "IndexError", event |-> "migrate", groups |-> gs,
                                target |-> None]}
                         ELSE {[exc |-> "none", event |-> "migrate",
                                groups |-> [gs EXCEPT ![t] = Append(@, sel.new_individual)],
                                target |-> t] : t \in others}
                    ELSE {[exc |-> "none", event |-> "stay",
                           groups |-> [gs EXCEPT ![sel.group] = Append(@, sel.new_individual)],
                           target |-> sel.group]}
                    : migrate \in Flip(lambda_mig, PDen) }
        : sel \in classes_select_individual_for_duplication(gs) }

\* Groups_Manager.conflict_groups: the pairs of pair_groups, each resolved as
\* in the loop of models/population.py (the two loops are the same code).
classes_conflict_groups(gs, kappa, zInv) ==
    UNION {
        IF pg.exc # "none" THEN {[exc |-> pg.exc, groups |-> gs, log |-> << >>]}
        ELSE ResolvePairs(gs, gs, pg.pairs, zInv, << >>)
        : pg \in classes_pair_groups(gs, kappa) }

\* A variant of the body of split_groups' loop that leaves an oversized group
\* as it is when the split is not drawn.
classes_split_groups_without_pop(gs, i, n, q) ==
    IF Len(gs[i]) > n
    THEN UNION {
           IF split THEN classes_split_group(gs, i)
           ELSE {[exc |-> "none", event |-> "keep", other |-> 0, groups |-> gs]}
           : split \in Flip(q, PDen) }
    ELSE {[exc |-> "none", event |-> "keep", other |-> 0, groups |-> gs]}

\* The body of the loop of Groups_Manager.split_groups for slot i: a group
\* larger than n is split with probability q and loses one member otherwise.
classes_split_groups(gs, i, n, q) ==
    IF Len(gs[i]) > n
    THEN UNION {
           IF split THEN classes_split_group(gs, i)
           ELSE {[exc |-> "none", event |-> "pop", other |-> 0,
                  groups |-> [gs EXCEPT ![i] = RemoveAt(@, j)]] : j \in DOMAIN gs[i]}
           : split \in Flip(q, PDen) }
    ELSE {[exc |-> "none", event |-> "keep", other |-> 0, groups |-> gs]}

\* The populations followed: two groups of up to MaxGroupSize members, and
\* one group more of up to MaxGroupSize - 1 members.
ClassesRunConfigs ==
    { c \in { [d EXCEPT !.num_groups = m] : d \in Configs, m \in 2 .. (MaxGroups + 1) } :
         c.num_groups <= MaxGroups \/ c.num_individuals < MaxGroupSize }

InitClassesRun ==
    /\ call = <<"run_simulation">>
    /\ pay = << >>
    /\ cfg \in ClassesRunConfigs
    /\ groups = initialize_population(cfg.num_groups, cfg.num_individuals, cfg.mutant_strategy)
    /\ pc = "is_homogeneous"
    /\ cursor = <<0, 0>>
    /\ generation = 0
    /\ retries = 0
    /\ last = "init"
    /\ result = None
    /\ raised = "none"

\* Interaction_Manager.play_game, one individual of its loop at a time.
ClassesPlayGame ==
    /\ pc = "play_game"
    /\ LET individual == groups[cursor[1]][cursor[2]]
           flat == Flatten(groups)
           next == NextPos(groups, cursor[1], cursor[2])
       IN  \E out \in classes_get_random_partner(groups, individual, cfg.alpha) :
              /\ groups' = IF out.exc # "none" THEN groups
                           ELSE Encounter(groups, individual, flat[out.partner], cfg.b, cfg.c)
              /\ raised' = out.exc
              /\ last' = "encounter"
              /\ cursor' = next
              /\ pc' = IF out.exc # "none" THEN "raised"
                       ELSE IF next = <<0, 0>> THEN "calculate_fitness" ELSE "play_game"
    /\ UNCHANGED <<pay, call, cfg, generation, retries, result>>

\* reproduce()
ClassesReproduce ==
    /\ pc = "reproduce"
    /\ \E out \in classes_reproduce(groups, cfg.lambda_mig) :
          /\ groups' = out.groups
          /\ raised' = out.exc
          /\ pc' = IF out.exc = "none" THEN "conflict_groups" ELSE "raised"
          /\ last' = out.event
    /\ UNCHANGED <<pay, call, cfg, cursor, generation, retries, result>>

\* conflict_groups(); `call` then counts the groups that the pass of
\* split_groups that follows finds oversized.
ClassesConflictGroups ==
    /\ pc = "conflict_groups"
    /\ \E out \in classes_conflict_groups(groups, cfg.kappa, cfg.zInv) :
          /\ groups' = out.groups
          /\ raised' = out.exc
          /\ pc' = IF out.exc = "none" THEN "split_groups" ELSE "raised"
          /\ cursor' = IF out.exc = "none" THEN <<1, 0>> ELSE cursor
          /\ last' = IF out.groups = groups THEN "no_conflict" ELSE "conflict"
    /\ call' = <<"split_groups", 0>>
    /\ UNCHANGED <<pay, cfg, generation, retries, result>>

\* split_groups(), one slot of `for i, group in enumerate(self.groups)` at a
\* time.
ClassesSplitGroups ==
    /\ pc = "split_groups"
    /\ \E out \in classes_split_groups(groups, cursor[1], cfg.num_individuals, cfg.q) :
          /\ groups' = out.groups
          /\ raised' = out.exc
          /\ pc' = IF out.exc # "none" THEN "raised"
                   ELSE IF cursor[1] < Len(groups) THEN "split_groups"
                   ELSE "recalculate_fitness"
          /\ cursor' = <<cursor[1] + 1, out.other>>
          /\ last' = out.event
    /\ call' = <<"split_groups",
                 call[2] + (IF Len(groups[cursor[1]]) > cfg.num_individuals THEN 1 ELSE 0)>>
    /\ UNCHANGED <<pay, cfg, generation, retries, result>>

\* reset_payoffs_and_fitness(), the last call of the loop's body.
ClassesResetPayoffsAndFitness ==
    /\ pc = "reset_payoffs_and_fitness"
    /\ groups' = Canonical(reset_payoffs_and_fitness(groups))
    /\ last' = "reset_payoffs_and_fitness"
    /\ pc' = "is_homogeneous"
    /\ call' = <<"run_simulation">>
    /\ UNCHANGED <<pay, cfg, cursor, generation, retries, result, raised>>

NextClassesRun ==
    \/ LoopTest
    \/ ClassesPlayGame
    \/ CalculateFitness
    \/ ClassesReproduce
    \/ ClassesConflictGroups
    \/ ClassesSplitGroups
    \/ ClassesResetPayoffsAndFitness

SpecClassesRun == InitClassesRun /\ [][NextClassesRun]_vars

\* The states between two passes of split_groups: from the end of a pass to
\* the next reproduce.
GenerationBoundary ==
    pc \in {"recalculate_fitness", "reset_payoffs_and_fitness", "is_homogeneous",
            "returned", "play_game", "calculate_fitness", "reproduce"}

\* C36: in classes/population.py, built with groups of n members, after every
\* pass of split_groups each group has between 1 and n members and the
\* population between m and m * n; the pass brings every oversized group to at
\* most n members, also the groups a conflict copy made oversized, and it
\* changes a group of at most n members only by overwriting it with the second
\* half of a split.
C36_SizesAfterSplitGroups ==
    /\ GenerationBoundary =>
          /\ Len(groups) = cfg.num_groups
          /\ \A g \in DOMAIN groups :
                Len(groups[g]) >= 1 /\ Len(groups[g]) <= cfg.num_individuals
          /\ TotalSize(groups) >= cfg.num_groups
          /\ TotalSize(groups) <= cfg.num_groups * cfg.num_individuals
    /\ pc = "split_groups" =>
          \A out \in classes_split_groups(groups, cursor[1], cfg.num_individuals, cfg.q) :
              out.exc = "none" =>
                 /\ Len(out.groups[cursor[1]]) >= 1
                 /\ Len(out.groups[cursor[1]]) <= cfg.num_individuals
                 /\ \A g \in DOMAIN groups :
                       (Len(groups[g]) <= cfg.num_individuals /\ out.groups[g] # groups[g]) =>
                           (out.event \in {"split_group", "force_splitting"} /\ g = out.other)

\* A pass of split_groups has ended that found two groups oversized, one of
\* them made so by a conflict copy.
C36_TwoOversizedResolved ==
    /\ pc = "recalculate_fitness"
    /\ raised = "none"
    /\ call = <<"split_groups", 2>>

(***************************************************************************)
(* run_simulation of models/population.py when no group is ever split      *)
(* (q = 0), for every kappa and lambda_mig.                                *)
(***************************************************************************)
NoSplitConfigs ==
    { c \in { [d EXCEPT !.num_groups = m, !.q = 0, !.kappa = kappa, !.lambda_mig = lambda_mig] :
                d \in Configs, m \in 2 .. (MaxGroups + 1),
                kappa \in 0 .. PDen, lambda_mig \in 0 .. PDen } :
         c.num_groups <= MaxGroups \/ c.num_individuals < MaxGroupSize }

InitNoSplit ==
    /\ call = <<"run_simulation">>
    /\ pay = << >>
    /\ cfg \in NoSplitConfigs
    /\ groups = initialize_population(cfg.num_groups, cfg.num_individuals, cfg.mutant_strategy)
    /\ pc = "is_homogeneous"
    /\ cursor = <<0, 0>>
    /\ generation = 0
    /\ retries = 0
    /\ last = "init"
    /\ result = None
    /\ raised = "none"

SpecNoSplit == InitNoSplit /\ [][Next]_vars

\* C37: with q = 0, run_simulation of models/population.py keeps every group at
\* exactly n members, and the population at m * n, between two passes of
\* split_groups; inside a generation a group has n or n + 1 members, and the
\* pass removes exactly one member from each group of n + 1 and touches no
\* other group.
C37_SizesWithoutSplits ==
    /\ \A g \in DOMAIN groups :
          Len(groups[g]) \in {cfg.num_individuals, cfg.num_individuals + 1}
    /\ GenerationBoundary =>
          /\ \A g \in DOMAIN groups : Len(groups[g]) = cfg.num_individuals
          /\ TotalSize(groups) = cfg.num_groups * cfg.num_individuals
    /\ pc = "split_groups" =>
          \A out \in SplitOrShrink(groups, cursor[1], cfg.num_individuals, cfg.q,
                                   MaxSplitRetry - retries) :
              /\ out.exc = "none"
              /\ \A g \in DOMAIN groups \ {cursor[1]} : out.groups[g] = groups[g]
              /\ IF Len(groups[cursor[1]]) = cfg.num_individuals + 1
                 THEN \E j \in DOMAIN groups[cursor[1]] :
                         out.groups[cursor[1]] = RemoveAt(groups[cursor[1]], j)
                 ELSE out.groups[cursor[1]] = groups[cursor[1]]

\* A pass of split_groups has removed a member from one group of n + 1 and
\* now reaches a second one, the copy that a conflict made of the first.
C37_TwoGroupsShrunk ==
    /\ pc = "split_groups"
    /\ last = "shrink"
    /\ cursor[1] \in DOMAIN groups
    /\ Len(groups[cursor[1]]) = cfg.num_individuals + 1

(***************************************************************************)
(* simulation.py of src/src: simulate_fixation_probabilities submits `runs`*)
(* calls of single_simulation to a ThreadPoolExecutor and counts the       *)
(* futures that return True.  In this specification `groups`, `pc`,        *)
(* `result` and `raised` hold one entry per replicate: the groups of the   *)
(* Population that single_simulation built, the position of the call, the  *)
(* value of its future and the exception it caught.  `pay` lists the       *)
(* futures in the order they completed, `cursor` is                        *)
(* <<futures submitted, futures yielded by as_completed, success_count>>,  *)
(* `last` the position of the main thread and `call` the value returned.   *)
(***************************************************************************)
MaxRuns == 3
MaxWorkers == 2

PoolConfigs ==
    { [runs |-> runs, max_workers |-> max_workers, mutant_strategy |-> s,
       num_groups |-> MaxGroups, num_individuals |-> 1] :
         runs \in 1 .. MaxRuns, max_workers \in 1 .. MaxWorkers, s \in MutantStrategies }

\* Population(num_groups, num_individuals, mutant_strategy) as replicate i
\* builds it: new Individual objects, none of them known to another replicate.
replicate_population(i, c) ==
    LET gs == initialize_population(c.num_groups, c.num_individuals, c.mutant_strategy)
        shift == (i - 1) * c.num_groups * c.num_individuals
    IN  [g \in DOMAIN gs |->
            [k \in DOMAIN gs[g] |-> [gs[g][k] EXCEPT !.obj = @ + shift, !.id = @ + shift]]]

\* One pass of the loop of Population.run_simulation, followed through the
\* strategies the members hold: reproduction and conflict copy individuals
\* and trimming removes them, so afterwards every member holds a strategy
\* that some member held before.
a_generation(gs) ==
    LET present == {x.strategy : x \in Range(Flatten(gs))}
    IN  { [g \in DOMAIN gs |-> [k \in DOMAIN gs[g] |-> [gs[g][k] EXCEPT !.strategy = st[g][k]]]] :
            st \in [DOMAIN gs -> [DOMAIN gs[1] -> present]] }

\* A variant of the count that takes every completed future for a success.
count_every_future(success_count, value) == success_count + 1

\* `if result: success_count += 1`
count_success(success_count, value) ==
    IF value = "True" THEN success_count + 1 ELSE success_count

\* A variant of the quotient that leaves the failed replicates out of the
\* number of runs.
fixation_prob_of_completed_runs(success_count, runs, failed) ==
    <<success_count, runs - failed>>

\* fixation_prob = success_count / runs, as the pair <<numerator, denominator>>.
fixation_prob(success_count, runs, failed) == <<success_count, runs>>

Replicates == 1 .. cfg.runs

Running == {i \in Replicates : pc[i] = "running"}

InitPool ==
    /\ cfg \in PoolConfigs
    /\ call = <<"simulate_fixation_probabilities">>
    /\ pay = << >>
    /\ groups = [i \in 1 .. cfg.runs |-> << >>]
    /\ pc = [i \in 1 .. cfg.runs |-> "new"]
    /\ result = [i \in 1 .. cfg.runs |-> "pending"]
    /\ raised = [i \in 1 .. cfg.runs |-> "none"]
    /\ cursor = <<0, 0, 0>>
    /\ generation = 0
    /\ retries = 0
    /\ last = "submit"

\* executor.submit(single_simulation, 10, 10, mutant_strategy), one future of
\* the list at a time; after the last one the main thread enters as_completed.
Submit ==
    /\ last = "submit"
    /\ cursor[1] < cfg.runs
    /\ pc' = [pc EXCEPT ![cursor[1] + 1] = "queued"]
    /\ cursor' = [cursor EXCEPT ![1] = @ + 1]
    /\ last' = IF cursor[1] + 1 = cfg.runs THEN "as_completed" ELSE "submit"
    /\ UNCHANGED <<call, pay, cfg, groups, generation, retries, result, raised>>

\* A worker thread takes the oldest queued call and single_simulation builds
\* its Population; at most max_workers calls run at a time.
StartReplicate ==
    /\ Cardinality(Running) < cfg.max_workers
    /\ \E i \in Replicates :
          /\ pc[i] = "queued"
          /\ \A j \in Replicates : pc[j] = "queued" => i <= j
          /\ pc' = [pc EXCEPT ![i] = "running"]
          /\ groups' = [groups EXCEPT ![i] = replicate_population(i, cfg)]
    /\ UNCHANGED <<call, pay, cfg, cursor, generation, retries, last, result, raised>>

\* population.run_simulation() of one replicate goes through a generation.
ReplicateGeneration ==
    /\ \E i \in Running :
          /\ ~is_homogeneous(groups[i])
          /\ \E gs \in a_generation(groups[i]) : groups' = [groups EXCEPT ![i] = gs]
    /\ UNCHANGED <<call, pay, cfg, pc, cursor, generation, retries, last, result, raised>>

\* run_simulation returns and single_simulation returns
\* `result == mutant_strategy`.
ReplicateReturns ==
    /\ \E i \in Running :
          /\ is_homogeneous(groups[i])
          /\ result' = [result EXCEPT ![i] =
                           IF get_homogeneous_strategy(groups[i]) = cfg.mutant_strategy
                           THEN "True" ELSE "False"]
          /\ pc' = [pc EXCEPT ![i] = "done"]
          /\ pay' = Append(pay, i)
    /\ UNCHANGED <<call, cfg, groups, cursor, generation, retries, last, raised>>

\* The construction or the run raises, and `except Exception` of
\* single_simulation logs the error and returns False.
ReplicateRaises ==
    /\ \E i \in Running :
          /\ raised' = [raised EXCEPT ![i] = "Exception"]
          /\ result' = [result EXCEPT ![i] = "False"]
          /\ pc' = [pc EXCEPT ![i] = "done"]
          /\ pay' = Append(pay, i)
    /\ UNCHANGED <<call, cfg, groups, cursor, generation, retries, last>>

\* One turn of `for i, future in enumerate(as_completed(futures), 1)`.
Collect ==
    /\ last = "as_completed"
    /\ cursor[2] < Len(pay)
    /\ LET future == pay[cursor[2] + 1]
       IN  cursor' = <<cursor[1], cursor[2] + 1, count_success(cursor[3], result[future])>>
    /\ UNCHANGED <<call, pay, cfg, groups, pc, generation, retries, last, result, raised>>

\* Every future was yielded: the executor shuts down and the quotient is
\* returned.
ReturnFixationProb ==
    /\ last = "as_completed"
    /\ cursor[2] = cfg.runs
    /\ last' = "returned"
    /\ call' = <<"fixation_prob">>
                 \o fixation_prob(cursor[3], cfg.runs,
                                  Cardinality({i \in Replicates : raised[i] # "none"}))
    /\ UNCHANGED <<pay, cfg, groups, pc, cursor, generation, retries, result, raised>>

NextPool ==
    \/ Submit
    \/ StartReplicate
    \/ ReplicateGeneration
    \/ ReplicateReturns
    \/ ReplicateRaises
    \/ Collect
    \/ ReturnFixationProb

SpecPool == InitPool /\ [][NextPool]_vars

\* The replicates whose run_simulation returned the mutant strategy.
Fixed ==
    {i \in Replicates :
        /\ pc[i] = "done"
        /\ raised[i] = "none"
        /\ is_homogeneous(groups[i])
        /\ get_homogeneous_strategy(groups[i]) = cfg.mutant_strategy}

\* C38: the replicates of simulate_fixation_probabilities have no individual
\* in common, each Population being built and changed by its own call of
\* single_simulation only, and in whatever order the worker threads run and
\* complete, the value returned is the number of replicates whose
\* run_simulation returned mutant_strategy, divided by runs.
C38_ReplicatesAreIndependent ==
    /\ \A i, j \in Replicates :
          i # j => Objects(Flatten(groups[i])) \cap Objects(Flatten(groups[j])) = {}
    /\ \A i \in Replicates : pc[i] \in {"new", "queued"} => groups[i] = << >>
    /\ last = "returned" =>
          /\ \A i \in Replicates : pc[i] = "done"
          /\ call = <<"fixation_prob", Cardinality(Fixed), cfg.runs>>

\* The value was returned after two replicates had run at the same time and
\* had completed in another order than they were submitted, one of them with
\* the mutant fixed.
C38_CompletedOutOfOrder ==
    /\ last = "returned"
    /\ cfg.max_workers >= 2
    /\ \E k \in DOMAIN pay : k < Len(pay) /\ pay[k] > pay[k + 1]
    /\ Fixed # {}
    /\ Fixed # Replicates

\* C39: whatever is raised while a replicate is built or run, single_simulation
\* returns False for it: the other replicates go on, the failed one is counted
\* as a run without fixation, and the value returned is the success count
\* divided by the full number of runs.
C39_FailedReplicateIsFalse ==
    /\ \A i \in Replicates : raised[i] # "none" => (pc[i] = "done" /\ result[i] = "False")
    /\ last = "returned" =>
          /\ call[3] = cfg.runs
          /\ call[2] = Cardinality({i \in Replicates : result[i] = "True"})
          /\ \A i \in Replicates : raised[i] # "none" => i \notin Fixed

\* The value was returned for a batch in which one replicate failed and a
\* later one fixed the mutant.
C39_BatchSurvivesFailure ==
    /\ last = "returned"
    /\ \E i, j \in Replicates : i < j /\ raised[i] # "none" /\ j \in Fixed

(***************************************************************************)
(* The sweep harness run_simulation of tools/tools.py over alpha           *)
(* (run_alpha_simulation).  `pay` is the namespace of the module           *)
(* src.config.config, `call` the namespace of src.classes.population, whose*)
(* line 7 copies n, q, z, lambda_mig, alpha and kappa out of the           *)
(* configuration when the module is first imported.  `cursor` is           *)
(* <<place in parameter_values, run>>, `result` the alpha that the         *)
(* replicate's get_random_partner read.  Probabilities are multiples of    *)
(* 1 / PDen.                                                               *)
(***************************************************************************)
MaxSweepPoints == 3
MaxSweepRuns == 2

SweepConfigs ==
    { [nbr_runs |-> r, parameter_values |-> pv, json_alpha |-> j] :
         r \in 1 .. MaxSweepRuns,
         pv \in UNION {[1 .. len -> 0 .. PDen] : len \in 1 .. MaxSweepPoints},
         j \in 0 .. PDen }

\* `from src.config.config import n, q, z, lambda_mig, alpha, kappa`, run when
\* src.classes.population is imported for the first time: the module gets a
\* name alpha of its own, bound to the value config.alpha has at that moment.
\* A later import finds the module in sys.modules and binds nothing.
import_population(population_module, config_module) ==
    IF population_module.imported THEN population_module
    ELSE [imported |-> TRUE, alpha |-> config_module.alpha]

\* `random.random() < alpha` in get_random_partner: the global name alpha of
\* the module src.classes.population.
alpha_of_get_random_partner(population_module, config_module) ==
    population_module.alpha

\* The harness is entered with config.py loaded, and src.classes.population
\* either not imported yet or imported earlier (by main of tools.py).
InitSweep ==
    /\ cfg \in SweepConfigs
    /\ \E a \in 0 .. PDen :
          /\ pay = [alpha |-> a]
          /\ call \in {[imported |-> FALSE, alpha |-> None], [imported |-> TRUE, alpha |-> a]}
    /\ groups = << >>
    /\ pc = "import"
    /\ cursor = <<0, 0>>
    /\ generation = 0
    /\ retries = 0
    /\ last = "init"
    /\ result = None
    /\ raised = "none"

\* from src.classes.population import Population
SweepImport ==
    /\ pc = "import"
    /\ call' = import_population(call, pay)
    /\ pc' = "reset_config"
    /\ last' = "import"
    /\ UNCHANGED <<pay, cfg, groups, cursor, generation, retries, result, raised>>

\* reset_config(): config.alpha = basic_config["alpha"], and the loop over
\* parameter_values starts.
SweepResetConfig ==
    /\ pc = "reset_config"
    /\ pay' = [pay EXCEPT !.alpha = cfg.json_alpha]
    /\ pc' = "config_modifier"
    /\ cursor' = <<1, 1>>
    /\ last' = "reset_config"
    /\ UNCHANGED <<call, cfg, groups, generation, retries, result, raised>>

\* config_modifier(value), which run_alpha_simulation passes as
\* lambda alpha: setattr(config, "alpha", alpha)
SweepConfigModifier ==
    /\ pc = "config_modifier"
    /\ pay' = [pay EXCEPT !.alpha = cfg.parameter_values[cursor[1]]]
    /\ pc' = "run_simulation"
    /\ last' = "config_modifier"
    /\ UNCHANGED <<call, cfg, groups, cursor, generation, retries, result, raised>>

\* population = Population(num_groups=10, num_individuals=10) and
\* population.run_simulation(), whose play_game calls get_random_partner; then
\* the next run, the next value, or the end of the sweep.
SweepReplicate ==
    /\ pc = "run_simulation"
    /\ result' = alpha_of_get_random_partner(call, pay)
    /\ groups' = Append(groups, <<cfg.parameter_values[cursor[1]],
                                  alpha_of_get_random_partner(call, pay)>>)
    /\ last' = "run_simulation"
    /\ pc' = "replicate_done"
    /\ UNCHANGED <<call, pay, cfg, cursor, generation, retries, raised>>

SweepNext ==
    /\ pc = "replicate_done"
    /\ IF cursor[2] < cfg.nbr_runs
       THEN cursor' = <<cursor[1], cursor[2] + 1>> /\ pc' = "config_modifier"
       ELSE IF cursor[1] < Len(cfg.parameter_values)
       THEN cursor' = <<cursor[1] + 1, 1>> /\ pc' = "config_modifier"
       ELSE cursor' = cursor /\ pc' = "returned"
    /\ last' = "next"
    /\ UNCHANGED <<call, pay, cfg, groups, generation, retries, result, raised>>

NextSweep ==
    \/ SweepImport
    \/ SweepResetConfig
    \/ SweepConfigModifier
    \/ SweepReplicate
    \/ SweepNext

SpecSweep == InitSweep /\ [][NextSweep]_vars

\* C40: in every replicate of the sweep of tools.py, the alpha that
\* get_random_partner reads is the value that config_modifier installed for
\* that sweep point, at the first point and at every later one.
C40_ReplicateReadsSweptValue ==
    pc = "replicate_done" => result = cfg.parameter_values[cursor[1]]

\* Two replicates of different sweep points were to run with different
\* values of alpha and both read the same one.
C40_SweepPointsRunAlike ==
    /\ pc = "replicate_done"
    /\ \E j, k \in DOMAIN groups :
          /\ groups[j][1] # groups[k][1]
          /\ groups[j][2] = groups[k][2]

====
